---- MODULE Spec2Model ----
(***************************************************************************)
(* SpoolBuddy dashboard (live telemetry reconciliation, weight auto-sync)  *)
(* and the printer queue widget (feasibility filter, clear-plate           *)
(* workflow) of bambuddy's frontend.                                       *)
(*                                                                         *)
(* The dashboard is a React function component.  Its state is the reducer  *)
(* state of useSpoolBuddyState (sbState), the useState cells of the        *)
(* component and one useRef.  A dispatched event or a state setter only    *)
(* changes the stored state and schedules a render; the component body     *)
(* and its effects run in the next render.  Several events may therefore   *)
(* be absorbed by one render, and an effect reads the values of the render *)
(* it belongs to.  Render is one commit: the body, then the effects whose  *)
(* dependencies changed, in declaration order, their setState calls        *)
(* applied afterwards.                                                     *)
(***************************************************************************)
EXTENDS Integers, Sequences, FiniteSets, TLC

\* ------------------------------------------------------------ values

\* null / undefined of the source; a present value x is Some(x)
Null == <<>>
Some(x) == <<x>>
Val(o) == o[1]

\* weights are fixed-point numbers: UnitsPerGram units make one gram
UnitsPerGram == 2

\* the weight samples the scale delivers, in units: 498.5 g where the calls are
\* or the events are recorded, -2.5 g and 498.5 g where the card is observed,
\* 498.5 g, 500.5 g and 502.5 g where the stabilised display is, 498 g, 501 g
\* and 503 g where the weighing of a spool is followed from end to end, and
\* -20.5 g, -20 g, 20 g, 20.5 g, 498.5 g and 1500.5 g where the numbers put
\* on screen are observed
Weights(t) ==
  IF t \in {"filter", "coalesce"} THEN {997, 1001, 1005}
  ELSE IF t = "numbers" THEN {-41, -40, 40, 41, 997, 3001}
  ELSE IF t = "e2e" THEN {498 * UnitsPerGram, 501 * UnitsPerGram, 503 * UnitsPerGram}
  ELSE IF t \in {"sync", "events", "completion", "payload", "order", "live"} THEN {997}
  ELSE {-5, 997}

\* the tags that can be put on the reader
Tags == {"A", "B", "U"}

\* the tags that are put on the reader: all of them, but a known and an unknown
\* one where the stabilised display is observed or the events are recorded
TagsRead(t) ==
  IF t \in {"filter", "events", "e2e", "payload", "coalesce", "manual"} THEN {"A", "U"}
  ELSE IF t = "numbers" THEN {"A", "B"}
  ELSE Tags

\* the device ids events carry
Devices == {"d1"}

\* the devices whose events reach the page: a second one where the events are recorded
DevicesOn(t) == IF t = "events" THEN Devices \cup {"d2"} ELSE Devices

\* the inventory api.getSpools returns: tag A is spool 1, tag B is spool 2,
\* spool 3 has no tag, tag U belongs to no spool; weights in grams, spool 2
\* with no core weight and no label weight set
InventorySpools ==
  << [id |-> 1, tag_uid |-> Some("A"),
      core_weight |-> 250, label_weight |-> 1000, weight_used |-> 200],
     [id |-> 2, tag_uid |-> Some("B"),
      core_weight |-> 0, label_weight |-> 0, weight_used |-> 0],
     [id |-> 3, tag_uid |-> Null,
      core_weight |-> 250, label_weight |-> 1000, weight_used |-> 0] >>

SpoolIds == {InventorySpools[i].id : i \in DOMAIN InventorySpools}

\* at most this many updateSpoolWeight calls are recorded in a run
MaxCalls == 3

\* at most this many updateSpoolWeight calls are pending at a time
MaxPending == 2

Abs(n) == IF n < 0 THEN -n ELSE n

MathMax(a, b) == IF a >= b THEN a ELSE b

MathMin(a, b) == IF a <= b THEN a ELSE b

\* Math.round(n / d) of whole numbers n >= 0 and d > 0, a half rounding up
RoundRatio(n, d) == (2 * n + d) \div (2 * d)

\* Math.round of a weight: the nearest whole gram, a half rounding up; the result in grams
MathRound(u) == (2 * u + UnitsPerGram) \div (2 * UnitsPerGram)

\* JavaScript truthiness of a string | null
Truthy(o) == o # Null /\ o # Some("")

\* the value of a property that an object lacks
Undefined == << "undefined", "undefined" >>

VARIABLES
  sbState,                \* useReducer state of useSpoolBuddyState
  spools,                 \* data of the 'inventory-spools' query (default [])
  displayedTagId,         \* useState
  displayedWeight,        \* useState
  hiddenTagId,            \* useState
  weightUpdatedForSpool,  \* useState
  stableDisplayWeight,    \* useRef .current
  rendered,               \* the values the last render (commit) closed over
  dirty,                  \* a render is scheduled
  card,                   \* SpoolInfoCard: syncing, synced, and its pending updateSpoolWeight promises
  storage,                \* localStorage: the item 'spoolbuddy-default-core-weight', a string or null
  calls,                  \* history: the updateSpoolWeight calls issued, in order
  syncsThisSpool,         \* history: calls issued since displayedSpool?.id last changed
  sinceSync,              \* history: per spool, what was displayed since its last call
  scenario,               \* history: progress of detect / dismiss / remove / detect
  run,                    \* history: the unstable samples rendered since the display was unset
  syncs,                  \* the updateSpoolWeight promises: how many are pending, how the last one settled
  delivered,              \* history: the last event delivered and whether its payload was incomplete
  fork,                   \* history: two consecutive weight samples, and the page that is given only the second
  events,                 \* history: the last event, whether a tag was removed since the last
                          \* dismiss, and whether the weight held was sampled under the present tag
  track                   \* which history a behaviour records

VARIABLES
  queue,                  \* data of the ['queue', printerId, 'pending', printerModel] query
  printerState,           \* prop
  plateCleared,           \* prop
  loadedFilamentTypes,    \* prop: Set of filament types
  loadedFilaments,        \* prop: Set of "TYPE:rrggbb" pairs
  permissions,            \* the permissions useAuth().hasPermission answers from
  mutation,               \* clearPlateMutation of useMutation
  inFlight,               \* api.clearPlate calls that have not answered yet
  clearPlateCalls,        \* history: api.clearPlate calls issued
  invalidated,            \* history: the query keys passed to invalidateQueries
  toast,                  \* history: the last showToast call
  screen                  \* the element the widget's last render committed

dashVars == << sbState, spools, displayedTagId, displayedWeight, hiddenTagId,
               weightUpdatedForSpool, stableDisplayWeight, rendered, dirty, card, storage >>

histVars == << calls, syncsThisSpool, sinceSync, scenario, run, syncs, events, delivered,
               fork, track >>

widgetVars == << queue, printerState, plateCleared, loadedFilamentTypes, loadedFilaments,
                 permissions, mutation, inFlight, clearPlateCalls, invalidated, toast,
                 screen >>

vars == << dashVars, histVars, widgetVars >>

\* ------------------------------------------------------------ useSpoolBuddyState

initialState ==
  [ weight |-> Null, weightStable |-> FALSE, rawAdc |-> Null,
    matchedSpool |-> Null, unknownTagUid |-> Null,
    deviceOnline |-> FALSE, deviceId |-> Null ]

\* the TAG_REMOVED case with the weight cleared but its stable flag kept
tagRemovedKeepsStable(state) ==
  [state EXCEPT !.matchedSpool = Null, !.unknownTagUid = Null, !.weight = Null]

\* the TAG_REMOVED case with the weight cleared as well
tagRemovedWithWeight(state) ==
  [state EXCEPT !.matchedSpool = Null, !.unknownTagUid = Null,
                !.weight = Null, !.weightStable = FALSE, !.rawAdc = Null]

\* the TAG_REMOVED case of the reducer
tagRemoved(state) == [state EXCEPT !.matchedSpool = Null, !.unknownTagUid = Null]

reducer(state, action) ==
  CASE action.type = "WEIGHT_UPDATE" ->
         [state EXCEPT !.weight = action.weight, !.weightStable = action.stable,
                       !.rawAdc = action.rawAdc, !.deviceId = Some(action.deviceId),
                       !.deviceOnline = TRUE]
    [] action.type = "TAG_MATCHED" ->
         [state EXCEPT !.matchedSpool = Some(action.spool), !.unknownTagUid = Null,
                       !.deviceId = Some(action.deviceId)]
    [] action.type = "UNKNOWN_TAG" ->
         [state EXCEPT !.matchedSpool = Null, !.unknownTagUid = Some(action.tagUid),
                       !.deviceId = Some(action.deviceId)]
    [] action.type = "TAG_REMOVED" ->
         tagRemoved(state)
    [] action.type = "DEVICE_ONLINE" ->
         [state EXCEPT !.deviceOnline = TRUE, !.deviceId = Some(action.deviceId)]
    [] action.type = "DEVICE_OFFLINE" ->
         [state EXCEPT !.deviceOnline = FALSE, !.weight = Null,
                       !.weightStable = FALSE, !.rawAdc = Null]
    [] OTHER -> state

\* sbState.matchedSpool?.tag_uid ?? sbState.unknownTagUid ?? null
currentTagIdOf(state) ==
  IF state.matchedSpool # Null THEN Some(Val(state.matchedSpool).tag_uid)
  ELSE state.unknownTagUid

\* ------------------------------------------------------------ component body

\* ignore changes smaller than this many grams
WEIGHT_THRESHOLD == 3

\* StableDisplayUpdate with the threshold test lost: every sample is shown
StableDisplayNoThreshold(current, currentWeight, weightStable) == currentWeight

\* StableDisplayUpdate with the test of weightStable lost: a stable sample
\* within the threshold is not shown
StableDisplayThresholdOnly(current, currentWeight, weightStable) ==
  IF currentWeight = Null THEN Null
  ELSE IF \/ current = Null
          \/ Abs(Val(currentWeight) - Val(current)) >= WEIGHT_THRESHOLD * UnitsPerGram
       THEN currentWeight
       ELSE current

\* the stabilised scale display: the new value of stableDisplayWeight.current

StableDisplayUpdate(current, currentWeight, weightStable) ==
  IF currentWeight = Null THEN Null
  ELSE IF \/ current = Null
          \/ Abs(Val(currentWeight) - Val(current)) >= WEIGHT_THRESHOLD * UnitsPerGram
          \/ weightStable
       THEN currentWeight
       ELSE current

\* spools.find((s) => s.tag_uid === tag): the first match
FindSpool(list, tag) ==
  LET hits == {i \in DOMAIN list : list[i].tag_uid = tag}
  IN  IF hits = {} THEN Null
      ELSE Some(list[CHOOSE i \in hits : \A j \in hits : i <= j])

\* displayedSpool?.id
displayedSpoolIdOf(list, tagId) ==
  IF ~Truthy(tagId) THEN Null
  ELSE LET s == FindSpool(list, tagId) IN IF s = Null THEN Null ELSE Some(Val(s).id)

\* Math.round(Math.max(0, currentWeight)), in grams
SyncedWeight(currentWeight) == MathRound(MathMax(0, Val(currentWeight)))

\* ------------------------------------------------------------ effects

\* TagEffect with the tag-removed branch lost: a dismissal is never cleared
TagEffectKeepsHidden(currentTagId, currentWeight, weightStable, dTag, hTag, dW) ==
  IF Truthy(currentTagId)
  THEN LET isHidden == hTag = currentTagId
           isDifferentTag == dTag # Null /\ dTag # currentTagId
           show == isDifferentTag \/ (~isHidden /\ dTag # currentTagId)
           store == ~isHidden /\ currentWeight # Null /\ weightStable
       IN  [ displayedTagId |-> IF show THEN currentTagId ELSE dTag,
             hiddenTagId |-> IF show THEN Null ELSE hTag,
             displayedWeight |-> IF store THEN Some(SyncedWeight(currentWeight))
                                 ELSE IF show THEN Null ELSE dW ]
  ELSE [displayedTagId |-> dTag, hiddenTagId |-> hTag, displayedWeight |-> dW]

\* TagEffect that takes any dismissal for a dismissal of the tag on the reader
TagEffectAnyHidden(currentTagId, currentWeight, weightStable, dTag, hTag, dW) ==
  IF Truthy(currentTagId)
  THEN LET isHidden == hTag # Null
           show == ~isHidden /\ dTag # currentTagId
           store == ~isHidden /\ currentWeight # Null /\ weightStable
       IN  [ displayedTagId |-> IF show THEN currentTagId ELSE dTag,
             hiddenTagId |-> IF show THEN Null ELSE hTag,
             displayedWeight |-> IF store THEN Some(SyncedWeight(currentWeight))
                                 ELSE IF show THEN Null ELSE dW ]
  ELSE IF Truthy(hTag)
       THEN [displayedTagId |-> Null, hiddenTagId |-> Null, displayedWeight |-> Null]
       ELSE [displayedTagId |-> dTag, hiddenTagId |-> hTag, displayedWeight |-> dW]

\* the tag effect: the values of displayedTagId, hiddenTagId and displayedWeight
\* after its setState calls (dW is the stored displayedWeight)
TagEffect(currentTagId, currentWeight, weightStable, dTag, hTag, dW) ==
  IF Truthy(currentTagId)
  THEN LET isHidden == hTag = currentTagId
           isDifferentTag == dTag # Null /\ dTag # currentTagId
           show == isDifferentTag \/ (~isHidden /\ dTag # currentTagId)
           store == ~isHidden /\ currentWeight # Null /\ weightStable
       IN  [ displayedTagId |-> IF show THEN currentTagId ELSE dTag,
             hiddenTagId |-> IF show THEN Null ELSE hTag,
             displayedWeight |-> IF store THEN Some(SyncedWeight(currentWeight))
                                 ELSE IF show THEN Null ELSE dW ]
  ELSE IF Truthy(hTag)
       THEN [displayedTagId |-> Null, hiddenTagId |-> Null, displayedWeight |-> Null]
       ELSE [displayedTagId |-> dTag, hiddenTagId |-> hTag, displayedWeight |-> dW]

\* ResetNeeded of a reset effect that never clears the marker
ResetNever(spoolId, marker) == FALSE

\* the reset effect: displayedSpool?.id !== weightUpdatedForSpool
ResetNeeded(spoolId, marker) == spoolId # marker

\* SyncNeeded without the test of the marker
SyncNeededNoMarker(spoolId, currentTagId, weightStable, marker) ==
  spoolId # Null /\ Truthy(currentTagId) /\ weightStable

\* SyncNeeded of a sync effect that skips a spool while no spool is marked
SyncNeededAfterAnother(spoolId, currentTagId, weightStable, marker) ==
  spoolId # Null /\ Truthy(currentTagId) /\ weightStable /\ marker # spoolId /\ marker # Null

\* the sync effect: displayedSpool && currentTagId && weightStable &&
\* weightUpdatedForSpool !== displayedSpool.id
SyncNeeded(spoolId, currentTagId, weightStable, marker) ==
  spoolId # Null /\ Truthy(currentTagId) /\ weightStable /\ marker # spoolId

\* SyncMarker of a sync effect that forgets to store the spool it synced
SyncMarkerForgotten(spoolId) == Null

\* the marker the sync effect stores: setWeightUpdatedForSpool(displayedSpool.id)
SyncMarker(spoolId) == spoolId

\* scaleReadout without the clamp around zero
scaleReadoutNoClamp(v) ==
  IF v # Null THEN Some(MathRound(MathMax(0, Val(v)))) ELSE Null

\* the scale readout in grams, nothing where the dash is rendered:
\* Math.abs(v) <= 20 ? 0 : Math.round(Math.max(0, v))
scaleReadout(v) ==
  IF v # Null
  THEN Some(IF Abs(Val(v)) <= 20 * UnitsPerGram THEN 0 ELSE MathRound(MathMax(0, Val(v))))
  ELSE Null

\* showCard of a render
showCard(r) == Truthy(r.displayedTagId) /\ r.hiddenTagId # r.displayedTagId

\* the scale weight the card is given: the live weight while the displayed tag
\* is on the reader or no tag is, nothing while another tag is
useScaleWeight(r) ==
  /\ r.currentWeight # Null
  /\ \/ r.currentTagId = r.displayedTagId
     \/ (r.currentTagId = Null /\ r.displayedTagId # Null)

liveWeight(r) == IF useScaleWeight(r) THEN r.currentWeight ELSE Null

\* the render shows the SpoolInfoCard: showCard && isMatchedSpool && displayedSpool
CardShown(r) == r.mounted /\ showCard(r) /\ r.spoolId # Null

\* useState(false) of syncing and of synced; no promise of the card is pending
CardUnmounted == [syncing |-> FALSE, synced |-> FALSE, pending |-> 0]

\* ------------------------------------------------------------ SpoolInfoCard

\* the value of a decimal digit, nothing for any other character
DigitValue(c) ==
  CASE c = "0" -> Some(0) [] c = "1" -> Some(1) [] c = "2" -> Some(2) [] c = "3" -> Some(3)
    [] c = "4" -> Some(4) [] c = "5" -> Some(5) [] c = "6" -> Some(6) [] c = "7" -> Some(7)
    [] c = "8" -> Some(8) [] c = "9" -> Some(9) [] OTHER -> Null

\* the number the digits at the start of s write after acc, and how many they are
RECURSIVE LeadingDigits(_, _, _)
LeadingDigits(s, acc, n) ==
  IF s = << >> \/ DigitValue(Head(s)) = Null THEN [value |-> acc, digits |-> n]
  ELSE LeadingDigits(Tail(s), 10 * acc + Val(DigitValue(Head(s))), n + 1)

\* parseInt(s, 10) of a string without sign or leading blanks: NaN (Null)
\* unless it starts with a digit
parseInt(s) ==
  LET r == LeadingDigits(s, 0, 0)
  IN  IF r.digits = 0 THEN Null ELSE Some(r.value)

\* the default core weight when nothing valid is stored
TypicalCoreWeight == 250

\* getDefaultCoreWeight of a card that never reads what is stored
getDefaultCoreWeightUnread == TypicalCoreWeight

\* the default core weight: the stored one when it parses to 0..500 g
getDefaultCoreWeight ==
  IF storage # Null /\ Val(storage) # << >>
  THEN LET weight == parseInt(Val(storage))
       IN  IF weight # Null /\ Val(weight) >= 0 /\ Val(weight) <= 500
           THEN Val(weight)
           ELSE TypicalCoreWeight
  ELSE TypicalCoreWeight

coreWeight(spool) ==
  IF spool.core_weight > 0 THEN spool.core_weight ELSE getDefaultCoreWeight

\* the remaining filament with the core left on: the gross weight itself
remainingWithCore(gross, core) == gross

\* Math.round(Math.max(0, grossWeight - coreWeight))
remaining(gross, core) == MathMax(0, gross - core)

\* labelWeight of a card that takes the label weight as it is, but 1 g at least
labelWeightAtLeastOne(spool) == MathMax(1, spool.label_weight)

\* Math.round(spool.label_weight || 1000)
labelWeight(spool) == IF spool.label_weight = 0 THEN 1000 ELSE spool.label_weight

\* what the card derives from the spool and the scale weight (units, or Null)
SpoolInfoCard(spool, scaleWeight) ==
  LET grossWeight == IF scaleWeight # Null
                     THEN Some(MathRound(MathMax(0, Val(scaleWeight))))
                     ELSE Null
      rem == IF grossWeight # Null
             THEN Some(remaining(Val(grossWeight), coreWeight(spool)))
             ELSE Null
      fillPercent == IF rem # Null
                     THEN Some(MathMin(100, RoundRatio(Val(rem) * 100, labelWeight(spool))))
                     ELSE Null
      netWeight == MathMax(0, spool.label_weight - spool.weight_used)
      calculatedWeight == netWeight + coreWeight(spool)
      difference == IF grossWeight # Null
                    THEN Some(Val(grossWeight) - calculatedWeight)
                    ELSE Null
      isMatch == IF difference # Null THEN Some(Abs(Val(difference)) <= 50) ELSE Null
  IN  [ grossWeight |-> grossWeight, remaining |-> rem, fillPercent |-> fillPercent,
        isMatch |-> isMatch ]

\* ------------------------------------------------------------ history

\* what has been displayed since the last call for spool s, after a render
\* that displays spoolId
Observe(v, spoolId, s) ==
  IF v = "never" \/ spoolId = Some(s) THEN v
  ELSE IF spoolId = Null THEN (IF v = "same" THEN "none" ELSE v)
  ELSE "other"

\* the run of unstable samples rendered since the display was unset: its first
\* sample, whether each sample was within the threshold of the one rendered
\* before it (consecutive), and of the first (near).  A run that a stable
\* sample ended, or that is neither, is Broken.  prev is the sample of the
\* previous render.
Broken == [first |-> 0, consecutive |-> FALSE, near |-> FALSE]

RunUpdate(r, prev, currentWeight, weightStable) ==
  IF currentWeight = Null THEN Null
  ELSE IF weightStable \/ r = Some(Broken) THEN Some(Broken)
  ELSE IF r = Null
       THEN Some([first |-> Val(currentWeight), consecutive |-> TRUE, near |-> TRUE])
  ELSE LET w == Val(currentWeight)
           c == Val(r).consecutive /\ Abs(w - Val(prev)) < WEIGHT_THRESHOLD * UnitsPerGram
           n == Val(r).near /\ Abs(w - Val(r).first) < WEIGHT_THRESHOLD * UnitsPerGram
       IN  IF ~c /\ ~n THEN Some(Broken)
           ELSE Some([first |-> Val(r).first, consecutive |-> c, near |-> n])

\* the tag state has been rendered and the effects have nothing left to change
Settled ==
  /\ rendered.mounted
  /\ rendered.currentTagId = currentTagIdOf(sbState)
  /\ rendered.displayedTagId = displayedTagId
  /\ rendered.hiddenTagId = hiddenTagId

ScenarioEvents == << "TagDetected", "Dismiss", "TagRemoved", "TagDetected" >>

\* the weighing of spool 1 from end to end: the device comes online, the tag
\* of the spool is read, three samples arrive, the last one stable
WeighingEvents ==
  << [type |-> "DEVICE_ONLINE", tag |-> Null, weight |-> Null, stable |-> FALSE],
     [type |-> "TAG_MATCHED", tag |-> Some("A"), weight |-> Null, stable |-> FALSE],
     [type |-> "WEIGHT_UPDATE", tag |-> Null, weight |-> Some(498 * UnitsPerGram),
      stable |-> FALSE],
     [type |-> "WEIGHT_UPDATE", tag |-> Null, weight |-> Some(501 * UnitsPerGram),
      stable |-> FALSE],
     [type |-> "WEIGHT_UPDATE", tag |-> Null, weight |-> Some(503 * UnitsPerGram),
      stable |-> TRUE] >>

\* the weighing after event e, renders falling anywhere between its events
Follow(e) ==
  IF /\ scenario.on
     /\ scenario.step < Len(WeighingEvents)
     /\ WeighingEvents[scenario.step + 1] = e
  THEN [tag |-> scenario.tag, step |-> scenario.step + 1, on |-> TRUE]
  ELSE [tag |-> Null, step |-> 0, on |-> FALSE]

\* the scenario after an event: the weighing where it is followed
Scripted(type, tag, weight, stable, otherwise) ==
  IF track = "e2e"
  THEN Follow([type |-> type, tag |-> tag, weight |-> weight, stable |-> stable])
  ELSE otherwise
ScenarioOff == [tag |-> Null, step |-> 0, on |-> FALSE]

\* the scenario after event ev (about tag, Null when it names none), each
\* event of the scenario arriving after the previous one was rendered
Advance(ev, tag) ==
  IF /\ track = "display"
     /\ scenario.on
     /\ Settled
     /\ scenario.step < Len(ScenarioEvents)
     /\ ScenarioEvents[scenario.step + 1] = ev
     /\ (scenario.step = 0 \/ tag = Null \/ tag = scenario.tag)
  THEN [tag |-> IF scenario.step = 0 THEN tag ELSE scenario.tag,
        step |-> scenario.step + 1, on |-> TRUE]
  ELSE ScenarioOff

\* the events history after an event of this type from this device (Null: the user)
Recorded(type, deviceId) ==
  IF track = "events"
  THEN [ last |-> Some([type |-> type, deviceId |-> deviceId]),
         removed |-> IF type = "TAG_REMOVED" THEN TRUE
                     ELSE IF type = "dismiss" THEN FALSE
                     ELSE events.removed,
         fresh |-> events.fresh ]
  ELSE events

\* ------------------------------------------------------------ initial state

\* ------------------------------------------------------------ the render as a function

\* the page: the state of the hook and of the component
Page ==
  [ sbState |-> sbState, spools |-> spools, displayedTagId |-> displayedTagId,
    displayedWeight |-> displayedWeight, hiddenTagId |-> hiddenTagId,
    weightUpdatedForSpool |-> weightUpdatedForSpool,
    stableDisplayWeight |-> stableDisplayWeight, rendered |-> rendered, dirty |-> dirty ]

\* one render of page P with its effects: the page after it, whether the sync
\* effect called updateSpoolWeight, and for which spool and with which weight
Commit(P) ==
  LET cur == currentTagIdOf(P.sbState)
      w == P.sbState.weight
      st == P.sbState.weightStable
      sid == displayedSpoolIdOf(P.spools, P.displayedTagId)
      first == ~P.rendered.mounted
      run1 == first \/ << cur, w, st, P.displayedTagId, P.hiddenTagId >> #
                       << P.rendered.currentTagId, P.rendered.currentWeight,
                          P.rendered.weightStable, P.rendered.displayedTagId,
                          P.rendered.hiddenTagId >>
      run2 == first \/ sid # P.rendered.spoolId
      run3 == first \/ << sid, cur, st >> #
                       << P.rendered.spoolId, P.rendered.currentTagId,
                          P.rendered.weightStable >>
      tagOut == IF run1
                THEN TagEffect(cur, w, st, P.displayedTagId, P.hiddenTagId,
                               P.displayedWeight)
                ELSE [displayedTagId |-> P.displayedTagId, hiddenTagId |-> P.hiddenTagId,
                      displayedWeight |-> P.displayedWeight]
      m2 == IF run2 /\ ResetNeeded(sid, P.weightUpdatedForSpool)
            THEN Null ELSE P.weightUpdatedForSpool
      fire3 == run3 /\ SyncNeeded(sid, cur, st, P.weightUpdatedForSpool)
      m3 == IF fire3 THEN SyncMarker(sid) ELSE m2
  IN  [ page |->
          [ sbState |-> P.sbState,
            spools |-> P.spools,
            displayedTagId |-> tagOut.displayedTagId,
            displayedWeight |-> tagOut.displayedWeight,
            hiddenTagId |-> tagOut.hiddenTagId,
            weightUpdatedForSpool |-> m3,
            stableDisplayWeight |-> StableDisplayUpdate(P.stableDisplayWeight, w, st),
            rendered |-> [ mounted |-> TRUE, currentTagId |-> cur, currentWeight |-> w,
                           weightStable |-> st, displayedTagId |-> P.displayedTagId,
                           hiddenTagId |-> P.hiddenTagId, spoolId |-> sid ],
            dirty |-> ( << tagOut.displayedTagId, tagOut.hiddenTagId,
                           tagOut.displayedWeight, m3 >> #
                        << P.displayedTagId, P.hiddenTagId, P.displayedWeight,
                           P.weightUpdatedForSpool >> ) ],
        call |-> fire3 /\ w # Null,
        sid |-> sid,
        w |-> w ]

\* the updateSpoolWeight call of a render, if it made one
CallsOf(out) ==
  IF out.call THEN << [id |-> Val(out.sid), grams |-> SyncedWeight(out.w)] >> ELSE << >>

\* at most this many renders follow one another before the page is at rest
MaxRenders == 4

\* page P rendered until no effect changes anything (within n renders), and
\* the updateSpoolWeight calls made on the way
RECURSIVE Settle(_, _)
Settle(P, n) ==
  IF ~P.dirty \/ n = 0 THEN [page |-> P, calls |-> << >>]
  ELSE LET out == Commit(P)
           rest == Settle(out.page, n - 1)
       IN  [page |-> rest.page, calls |-> CallsOf(out) \o rest.calls]

\* page P after the hook dispatched this action
Dispatched(P, action) == [P EXCEPT !.sbState = reducer(@, action), !.dirty = TRUE]

\* no pair of weight samples is being followed
NoFork ==
  [stage |-> "none", page |-> Null, first |-> Null, between |-> FALSE,
   calls |-> << >>, twin |-> Null]

\* the events that are about the tag on the reader
TagEvents == {"TAG_MATCHED", "UNKNOWN_TAG", "TAG_REMOVED"}

\* a weight sample and a tag event, in either order
WeightAndTag(a1, a2) ==
  \/ a1.type = "WEIGHT_UPDATE" /\ a2.type \in TagEvents
  \/ a1.type \in TagEvents /\ a2.type = "WEIGHT_UPDATE"

\* the pair of events followed after this action: an event keeps the page it
\* arrived at, and a second one that arrives before the next render and makes
\* a weight sample and a tag event with it gives that page the two in the other order
OrderAfter(action) ==
  IF fork.stage = "first" /\ WeightAndTag(Val(fork.first), action)
  THEN [fork EXCEPT !.stage = "second", !.page = Null,
                    !.twin = Some(Settle(Dispatched(Dispatched(Val(fork.page), action),
                                                    Val(fork.first)),
                                         MaxRenders))]
  ELSE IF action.type = "WEIGHT_UPDATE" \/ action.type \in TagEvents
       THEN [stage |-> "first", page |-> Some(Page), first |-> Some(action),
             between |-> FALSE, calls |-> << >>, twin |-> Null]
       ELSE NoFork

\* the pair of samples followed after this action: a first sample that arrives
\* at a page at rest keeps that page, the next one gives that page the second
\* sample alone; any other event ends the pair
ForkAfter(action) ==
  IF track = "order" THEN OrderAfter(action)
  ELSE IF track # "coalesce" THEN fork
  ELSE IF action.type # "WEIGHT_UPDATE" THEN NoFork
  ELSE IF fork.stage # "first" /\ dirty THEN NoFork
  ELSE IF fork.stage = "first"
       THEN [fork EXCEPT !.stage = "second", !.page = Null,
                         !.twin = Some(Settle(Dispatched(Val(fork.page), action),
                                              MaxRenders))]
       ELSE [stage |-> "first", page |-> Some(Page),
             first |-> Some([weight |-> action.weight, stable |-> action.stable]),
             between |-> FALSE, calls |-> << >>, twin |-> Null]

PageInit ==
  /\ sbState = initialState
  /\ spools = << >>
  /\ displayedTagId = Null
  /\ displayedWeight = Null
  /\ hiddenTagId = Null
  /\ weightUpdatedForSpool = Null
  /\ stableDisplayWeight = Null
  /\ rendered = [ mounted |-> FALSE, currentTagId |-> Null, currentWeight |-> Null,
                  weightStable |-> FALSE, displayedTagId |-> Null,
                  hiddenTagId |-> Null, spoolId |-> Null ]
  /\ dirty = TRUE
  /\ card = CardUnmounted
  /\ calls = << >>
  /\ syncsThisSpool = 0
  /\ sinceSync = [s \in SpoolIds |-> "never"]
  /\ scenario = [tag |-> Null, step |-> 0, on |-> TRUE]
  /\ run = Null
  /\ syncs = [inFlight |-> 0, last |-> "none"]
  /\ events = [last |-> Null, removed |-> FALSE, fresh |-> FALSE]
  /\ delivered = [event |-> "", malformed |-> FALSE, tick |-> 0]
  /\ fork = NoFork

\* the page in a browser that has no default core weight stored
DashboardInit == PageInit /\ storage = Null

\* the queue widget before it is given anything
WidgetUnmounted ==
  /\ queue = Null
  /\ printerState = Null
  /\ plateCleared = Null
  /\ loadedFilamentTypes = Null
  /\ loadedFilaments = Null
  /\ permissions = {}
  /\ mutation = [status |-> "idle"]
  /\ inFlight = 0
  /\ clearPlateCalls = 0
  /\ invalidated = {}
  /\ toast = Null
  /\ screen = Null

Init ==
  /\ DashboardInit
  /\ WidgetUnmounted
  /\ track \in {"sync", "display", "filter", "events"}

\* ------------------------------------------------------------ events

\* the events history where the automatic sync is observed: whether the
\* weight sample the state holds was received while the tag that is on the
\* reader now was on it, that is, after that tag was detected
SampleAfter(action) ==
  [ events EXCEPT !.fresh =
      IF action.type = "WEIGHT_UPDATE" THEN currentTagIdOf(sbState) # Null
      ELSE @ /\ currentTagIdOf(reducer(sbState, action)) = currentTagIdOf(sbState) ]

Dispatch(action) ==
  /\ sbState' = reducer(sbState, action)
  /\ dirty' = TRUE
  /\ events' = IF track = "live" THEN SampleAfter(action)
                ELSE Recorded(action.type, Some(action.deviceId))
  /\ fork' = ForkAfter(action)
  /\ UNCHANGED << card, storage >>
  /\ UNCHANGED << spools, displayedTagId, displayedWeight, hiddenTagId,
                  weightUpdatedForSpool, stableDisplayWeight, rendered >>
  /\ UNCHANGED << calls, syncsThisSpool, sinceSync, run, syncs, track >>
  /\ UNCHANGED widgetVars

\* the fields an event detail can carry, none of them present
NoFields ==
  [ weight_grams |-> Undefined, stable |-> Undefined, raw_adc |-> Undefined,
    device_id |-> Undefined, tag_uid |-> Undefined, spool |-> Undefined ]

\* an event detail with its fields at the top level, and one with them under data
Flat(f) == [top |-> f, data |-> Undefined]

Nested(f) == [top |-> NoFields, data |-> Some(f)]

\* a ?? b
Coalesce(a, b) == IF a # Undefined /\ a # Null THEN a ELSE b

\* detail.name ?? detail.data?.name
Field(detail, name) ==
  Coalesce(detail.top[name],
           IF detail.data # Undefined THEN Val(detail.data)[name] ELSE Undefined)

\* the values a field takes: always present, or possibly absent where
\* incomplete payloads are delivered
Optional(S, t) ==
  IF t = "payload" THEN {Some(v) : v \in S} \cup {Undefined} ELSE {Some(v) : v \in S}

Shapes(f, t) == IF t = "payload" THEN {Flat(f), Nested(f)} ELSE {Flat(f)}

\* the details of the 'spoolbuddy-weight' events
WeightDetails(t) ==
  UNION { Shapes([NoFields EXCEPT !.weight_grams = w, !.stable = st,
                                  !.raw_adc = w, !.device_id = d], t) :
            w \in Optional(Weights(t), t), st \in Optional(BOOLEAN, t),
            d \in Optional(DevicesOn(t), t) }

\* the details of the 'spoolbuddy-tag-matched' events: the spool the backend
\* found for the tag that was read
MatchedDetails(t) ==
  UNION { UNION { Shapes([NoFields EXCEPT !.spool = sp, !.tag_uid = tg, !.device_id = d], t) :
                    sp \in Optional({[id |-> InventorySpools[i].id]}, t),
                    tg \in Optional({Val(InventorySpools[i].tag_uid)}, t),
                    d \in Optional(DevicesOn(t), t) } :
            i \in {j \in DOMAIN InventorySpools :
                     /\ InventorySpools[j].tag_uid # Null
                     /\ Val(InventorySpools[j].tag_uid) \in TagsRead(t)} }

\* the details of the 'spoolbuddy-unknown-tag' events
UnknownTagDetails(t) ==
  UNION { Shapes([NoFields EXCEPT !.tag_uid = tg, !.device_id = d], t) :
            tg \in Optional({u \in TagsRead(t) : FindSpool(InventorySpools, Some(u)) = Null}, t),
            d \in Optional(DevicesOn(t), t) }

\* the details of the events that name nothing but the device
DeviceDetails(t) ==
  UNION { Shapes([NoFields EXCEPT !.device_id = d], t) : d \in Optional(DevicesOn(t), t) }

\* detail.device_id ?? detail.data?.device_id ?? ''
deviceIdOf(detail) == Val(Coalesce(Field(detail, "device_id"), Some("")))

\* the payload lacks a field its event needs
Lacks(event, detail) ==
  \/ event = "spoolbuddy-weight" /\ Field(detail, "weight_grams") = Undefined
  \/ event = "spoolbuddy-tag-matched" /\ Field(detail, "spool") = Undefined
  \/ event = "spoolbuddy-tag-matched" /\ Field(detail, "tag_uid") = Undefined
  \/ event = "spoolbuddy-unknown-tag" /\ Field(detail, "tag_uid") = Undefined

\* the delivery history after this event
Delivery(event, detail) ==
  IF track = "payload"
  THEN [event |-> event, malformed |-> Lacks(event, detail), tick |-> 1 - delivered.tick]
  ELSE delivered

handleWeight ==
  \E detail \in WeightDetails(track) :
    LET weight == Field(detail, "weight_grams")
        stable == Val(Coalesce(Field(detail, "stable"), Some(FALSE)))
    IN  /\ Dispatch([type |-> "WEIGHT_UPDATE", weight |-> weight, stable |-> stable,
                     rawAdc |-> Coalesce(Field(detail, "raw_adc"), Null),
                     deviceId |-> deviceIdOf(detail)])
        /\ scenario' = Scripted("WEIGHT_UPDATE", Null, weight, stable, scenario)
        /\ delivered' = Delivery("spoolbuddy-weight", detail)

handleTagMatched ==
  \E detail \in MatchedDetails(track) :
    LET spool == Field(detail, "spool")
        tag_uid == Coalesce(Field(detail, "tag_uid"), Some(""))
    IN  /\ delivered' = Delivery("spoolbuddy-tag-matched", detail)
        /\ IF spool # Undefined
           THEN /\ Dispatch([type |-> "TAG_MATCHED",
                             spool |-> [id |-> Val(spool).id, tag_uid |-> Val(tag_uid)],
                             deviceId |-> deviceIdOf(detail)])
                /\ scenario' = Scripted("TAG_MATCHED", tag_uid, Null, FALSE,
                                         Advance("TagDetected", tag_uid))
           ELSE /\ UNCHANGED dashVars
                /\ UNCHANGED << calls, syncsThisSpool, sinceSync, scenario, run, syncs,
                                events, fork, track >>
                /\ UNCHANGED widgetVars

handleUnknownTag ==
  \E detail \in UnknownTagDetails(track) :
    LET tagUid == Coalesce(Field(detail, "tag_uid"), Some(""))
    IN  /\ Dispatch([type |-> "UNKNOWN_TAG", tagUid |-> Val(tagUid),
                     deviceId |-> deviceIdOf(detail)])
        /\ scenario' = Scripted("UNKNOWN_TAG", tagUid, Null, FALSE,
                                 Advance("TagDetected", tagUid))
        /\ delivered' = Delivery("spoolbuddy-unknown-tag", detail)

handleTagRemoved ==
  \E detail \in DeviceDetails(track) :
    /\ Dispatch([type |-> "TAG_REMOVED", deviceId |-> deviceIdOf(detail)])
    /\ scenario' = Scripted("TAG_REMOVED", Null, Null, FALSE, Advance("TagRemoved", Null))
    /\ delivered' = Delivery("spoolbuddy-tag-removed", detail)

handleOnline ==
  \E detail \in DeviceDetails(track) :
    /\ Dispatch([type |-> "DEVICE_ONLINE", deviceId |-> deviceIdOf(detail)])
    /\ scenario' = Scripted("DEVICE_ONLINE", Null, Null, FALSE, scenario)
    /\ delivered' = Delivery("spoolbuddy-online", detail)

handleOffline ==
  \E detail \in DeviceDetails(track) :
    /\ Dispatch([type |-> "DEVICE_OFFLINE", deviceId |-> deviceIdOf(detail)])
    /\ scenario' = Scripted("DEVICE_OFFLINE", Null, Null, FALSE, scenario)
    /\ delivered' = Delivery("spoolbuddy-offline", detail)

\* the user closes the card that the last render put on screen
handleCloseSpoolCard ==
  /\ rendered.mounted
  /\ showCard(rendered)
  /\ hiddenTagId' = rendered.displayedTagId
  /\ dirty' = (dirty \/ hiddenTagId' # hiddenTagId)
  /\ scenario' = Scripted("dismiss", Null, Null, FALSE, Advance("Dismiss", Null))
  /\ events' = Recorded("dismiss", Null)
  /\ fork' = NoFork
  /\ UNCHANGED << card, storage >>
  /\ UNCHANGED << sbState, spools, displayedTagId, displayedWeight,
                  weightUpdatedForSpool, stableDisplayWeight, rendered >>
  /\ UNCHANGED << calls, syncsThisSpool, sinceSync, run, syncs, delivered, track >>
  /\ UNCHANGED widgetVars

\* where the manual sync is observed: the last updateSpoolWeight call, by whom
\* it was made, and a tick that tells two equal calls apart
LastCall(by, id, grams) ==
  << [by |-> by, id |-> id, grams |-> grams,
      tick |-> IF calls = << >> THEN 0 ELSE 1 - calls[1].tick] >>

\* Math.round(scaleWeight), in grams
ManualWeight(scaleWeight) == MathRound(Val(scaleWeight))

\* the user presses Sync Weight, or the sync icon next to a scale weight that
\* does not match, on the card that the last render put on screen
handleSyncWeight ==
  LET scaleWeight == liveWeight(rendered)
      shown == SpoolInfoCard(Val(FindSpool(spools, rendered.displayedTagId)), scaleWeight)
      button == ~(~rendered.weightStable \/ scaleWeight = Null \/ card.syncing)
      icon == shown.grossWeight # Null /\ shown.isMatch = Some(FALSE)
  IN  /\ CardShown(rendered)
      /\ button \/ icon
      /\ ~(scaleWeight = Null \/ ~rendered.weightStable)
      /\ card.pending < MaxPending
      /\ card' = [card EXCEPT !.syncing = TRUE, !.pending = @ + 1]
      /\ UNCHANGED storage
      /\ calls' = IF track = "manual"
                  THEN LastCall("manual", Val(rendered.spoolId), ManualWeight(scaleWeight))
                  ELSE calls
      /\ UNCHANGED << sbState, spools, displayedTagId, displayedWeight, hiddenTagId,
                      weightUpdatedForSpool, stableDisplayWeight, rendered, dirty >>
      /\ UNCHANGED << syncsThisSpool, sinceSync, scenario, run, syncs, events, delivered,
                      fork, track >>
      /\ UNCHANGED widgetVars

\* the updateSpoolWeight promise of a manual sync resolves (ok) or rejects:
\* setSynced(true) and the refetch of the inventory, which answers as before,
\* on success; setSyncing(false) in either case
handleSyncWeightSettled ==
  \E ok \in BOOLEAN :
    /\ card.pending > 0
    /\ card' = [syncing |-> FALSE, synced |-> (ok \/ card.synced), pending |-> card.pending - 1]
    /\ UNCHANGED storage
    /\ UNCHANGED << sbState, spools, displayedTagId, displayedWeight, hiddenTagId,
                    weightUpdatedForSpool, stableDisplayWeight, rendered, dirty >>
    /\ UNCHANGED histVars
    /\ UNCHANGED widgetVars

\* the timer of a successful manual sync: setSynced(false)
syncedTimeout ==
  /\ card.synced
  /\ card' = [card EXCEPT !.synced = FALSE]
  /\ UNCHANGED storage
  /\ UNCHANGED << sbState, spools, displayedTagId, displayedWeight, hiddenTagId,
                  weightUpdatedForSpool, stableDisplayWeight, rendered, dirty >>
  /\ UNCHANGED histVars
  /\ UNCHANGED widgetVars

\* the 'inventory-spools' query resolves
SpoolsLoaded ==
  /\ spools = << >>
  /\ spools' = InventorySpools
  /\ dirty' = TRUE
  /\ UNCHANGED << card, storage >>
  /\ UNCHANGED << sbState, displayedTagId, displayedWeight, hiddenTagId,
                  weightUpdatedForSpool, stableDisplayWeight, rendered >>
  /\ UNCHANGED << calls, syncsThisSpool, sinceSync, scenario, run, syncs, events, delivered,
                  track >>
  /\ fork' = NoFork
  /\ UNCHANGED widgetVars

\* ------------------------------------------------------------ render

Render ==
  /\ dirty
  /\ LET out == Commit(Page)
         call == out.call
         sid == out.sid
         w == out.w
         st == sbState.weightStable
     IN  /\ (track = "sync" /\ call) => Len(calls) < MaxCalls
         /\ (track = "completion" /\ call) => syncs.inFlight < MaxPending
         /\ syncs' = IF track = "completion" /\ call
                     THEN [syncs EXCEPT !.inFlight = @ + 1]
                     ELSE syncs
         /\ stableDisplayWeight' = out.page.stableDisplayWeight
         /\ displayedTagId' = out.page.displayedTagId
         /\ hiddenTagId' = out.page.hiddenTagId
         /\ displayedWeight' = out.page.displayedWeight
         /\ weightUpdatedForSpool' = out.page.weightUpdatedForSpool
         /\ rendered' = out.page.rendered
         /\ dirty' = out.page.dirty
         /\ card' = IF CardShown(out.page.rendered) THEN card ELSE CardUnmounted
         /\ UNCHANGED storage
         /\ IF track = "sync"
            THEN /\ calls' = IF call
                             THEN Append(calls, [id |-> Val(sid), grams |-> SyncedWeight(w)])
                             ELSE calls
                 /\ syncsThisSpool' = (IF sid # rendered.spoolId THEN 0 ELSE syncsThisSpool)
                                      + (IF call THEN 1 ELSE 0)
                 /\ sinceSync' = [s \in SpoolIds |->
                                    IF call /\ sid = Some(s) THEN "same"
                                    ELSE Observe(sinceSync[s], sid, s)]
            ELSE /\ calls' = IF track = "e2e" /\ scenario.on /\ call
                             THEN Append(calls, [id |-> Val(sid), grams |-> SyncedWeight(w)])
                             ELSE IF track \in {"manual", "live"} /\ call
                             THEN LastCall("auto", Val(sid), SyncedWeight(w))
                             ELSE calls
                 /\ sinceSync' = IF track = "live"
                                 THEN [s \in SpoolIds |->
                                         IF call /\ sid = Some(s) THEN "same"
                                         ELSE Observe(sinceSync[s], sid, s)]
                                 ELSE sinceSync
                 /\ UNCHANGED syncsThisSpool
         /\ run' = IF track = "filter" THEN RunUpdate(run, rendered.currentWeight, w, st) ELSE run
         /\ fork' = IF fork.stage = "none" THEN fork
                    ELSE IF track = "order" /\ fork.stage = "first" THEN NoFork
                    ELSE [fork EXCEPT !.between = @ \/ fork.stage = "first",
                                      !.calls = @ \o CallsOf(out)]
  /\ UNCHANGED << sbState, spools, scenario, events, delivered, track >>
  /\ UNCHANGED widgetVars

\* a marker that is given up when the call failed
MarkerClearedOnFailure(marker, ok) == IF ok THEN marker ELSE Null

\* weightUpdatedForSpool after an updateSpoolWeight promise settled: nothing is
\* chained on success, the catch handler only calls console.error
MarkerAfterSync(marker, ok) == marker

\* an updateSpoolWeight promise of the sync effect resolves (ok) or rejects
updateSpoolWeightSettled ==
  \E ok \in BOOLEAN :
    /\ syncs.inFlight > 0
    /\ syncs' = [inFlight |-> syncs.inFlight - 1,
                 last |-> IF ok THEN "resolved" ELSE "rejected"]
    /\ weightUpdatedForSpool' = MarkerAfterSync(weightUpdatedForSpool, ok)
    /\ dirty' = (dirty \/ weightUpdatedForSpool' # weightUpdatedForSpool)
    /\ UNCHANGED << card, storage >>
    /\ UNCHANGED << sbState, spools, displayedTagId, displayedWeight, hiddenTagId,
                    stableDisplayWeight, rendered >>
    /\ UNCHANGED << calls, syncsThisSpool, sinceSync, scenario, run, events, delivered,
                    fork, track >>
    /\ UNCHANGED widgetVars

Next ==
  \/ handleWeight
  \/ handleTagMatched
  \/ handleUnknownTag
  \/ handleTagRemoved
  \/ handleOnline
  \/ handleOffline
  \/ handleCloseSpoolCard
  \/ SpoolsLoaded
  \/ Render

\* every behaviour of the dashboard
Spec == Init /\ [][Next]_vars

\* the dashboard with the weighing of spool 1 followed from end to end
InitE2E == DashboardInit /\ WidgetUnmounted /\ track = "e2e"

SpecE2E == InitE2E /\ [][Next]_vars

\* the state hook alone, fed with events whose payloads may lack fields
NextPayload ==
  \/ handleWeight
  \/ handleTagMatched
  \/ handleUnknownTag
  \/ handleTagRemoved
  \/ handleOnline
  \/ handleOffline

InitPayload == DashboardInit /\ WidgetUnmounted /\ track = "payload"

SpecPayload == InitPayload /\ [][NextPayload]_vars

\* what the item 'spoolbuddy-default-core-weight' can hold: nothing, "0",
\* "300", "501" and "x"
StoredCoreWeights ==
  { Null, Some(<<"0">>), Some(<<"3", "0", "0">>), Some(<<"5", "0", "1">>), Some(<<"x">>) }

\* the page weighing known spools, whatever default core weight is stored
NextNumbers ==
  \/ handleWeight
  \/ handleTagMatched
  \/ SpoolsLoaded
  \/ Render

InitNumbers ==
  PageInit /\ storage \in StoredCoreWeights /\ WidgetUnmounted /\ track = "numbers"

SpecNumbers == InitNumbers /\ [][NextNumbers]_vars

\* a scheduled render always changes the page, so Render is enabled exactly
\* when a render is scheduled
RenderChangesThePage == dirty => Commit(Page).page # Page

\* React carries out the render it has scheduled, whatever events keep
\* arriving: weak fairness of Render, WF_vars(Render), with ENABLED
\* <<Render>>_vars written as the equivalent state predicate dirty
RenderRuns == []<>(~dirty) \/ []<><<Render>>_vars

InitLive == DashboardInit /\ WidgetUnmounted /\ track = "live"

SpecLive == InitLive /\ [][Next]_vars /\ RenderRuns

\* the dashboard with the Sync Weight button of its card
NextManual ==
  \/ handleWeight
  \/ handleTagMatched
  \/ handleUnknownTag
  \/ handleTagRemoved
  \/ handleOnline
  \/ handleOffline
  \/ handleCloseSpoolCard
  \/ SpoolsLoaded
  \/ Render
  \/ handleSyncWeight
  \/ handleSyncWeightSettled
  \/ syncedTimeout

InitManual == DashboardInit /\ WidgetUnmounted /\ track = "manual"

SpecManual == InitManual /\ [][NextManual]_vars

\* the dashboard with a weight sample and a tag event of one tick also given
\* in the other order to a copy of the page
InitOrder == DashboardInit /\ WidgetUnmounted /\ track = "order"

SpecOrder == InitOrder /\ [][Next]_vars

\* the dashboard with every second weight sample also given alone to a copy of the page
InitCoalesce == DashboardInit /\ WidgetUnmounted /\ track = "coalesce"

SpecCoalesce == InitCoalesce /\ [][Next]_vars

\* the behaviours that record the updateSpoolWeight calls
InitSync == Init /\ track = "sync"

SpecSync == InitSync /\ [][Next]_vars

\* the behaviours that record the detect / dismiss / remove / detect scenario
InitDisplay == Init /\ track = "display"

SpecDisplay == InitDisplay /\ [][Next]_vars

\* the dashboard with the updateSpoolWeight promises settling
NextCompletion ==
  \/ handleWeight
  \/ handleTagMatched
  \/ handleUnknownTag
  \/ handleTagRemoved
  \/ handleOnline
  \/ handleOffline
  \/ handleCloseSpoolCard
  \/ SpoolsLoaded
  \/ Render
  \/ updateSpoolWeightSettled

InitCompletion == DashboardInit /\ WidgetUnmounted /\ track = "completion"

SpecCompletion == InitCompletion /\ [][NextCompletion]_vars

\* the behaviours that record the events, with two devices sending them
InitEvents == Init /\ track = "events"

SpecEvents == InitEvents /\ [][Next]_vars

\* the behaviours that record the samples the stabilised display has seen
InitFilter == Init /\ track = "filter"

SpecFilter == InitFilter /\ [][Next]_vars

\* ============================================================ printer queue widget

\* ------------------------------------------------------------ strings

\* a string that is transformed is the sequence of its characters
LowerCase == << "a", "b", "c", "d", "e", "f", "g", "h", "i", "j", "k", "l", "m",
                "n", "o", "p", "q", "r", "s", "t", "u", "v", "w", "x", "y", "z" >>
UpperCase == << "A", "B", "C", "D", "E", "F", "G", "H", "I", "J", "K", "L", "M",
                "N", "O", "P", "Q", "R", "S", "T", "U", "V", "W", "X", "Y", "Z" >>

\* the character at the place c has in alphabet from, taken from alphabet to
MapChar(c, from, to) ==
  IF \E k \in DOMAIN from : from[k] = c
  THEN to[CHOOSE k \in DOMAIN from : from[k] = c]
  ELSE c

RECURSIVE MapString(_, _, _)
MapString(s, from, to) ==
  IF s = << >> THEN << >>
  ELSE << MapChar(Head(s), from, to) >> \o MapString(Tail(s), from, to)

\* String.prototype.toUpperCase
toUpperCase(s) == MapString(s, LowerCase, UpperCase)

\* String.prototype.toLowerCase
toLowerCase(s) == MapString(s, UpperCase, LowerCase)

\* String.prototype.replace(c, ''): the first occurrence of c is taken out
RECURSIVE replace(_, _)
replace(s, c) ==
  IF s = << >> THEN << >>
  ELSE IF Head(s) = c THEN Tail(s)
  ELSE << Head(s) >> \o replace(Tail(s), c)

\* a slice that keeps the whole string
sliceAll(s, n) == s

\* String.prototype.slice(0, n)
slice(s, n) == IF Len(s) <= n THEN s ELSE SubSeq(s, 1, n)

\* (x || ''): null, undefined and the empty string give the empty string
OrEmpty(o) == IF o = Null THEN << >> ELSE Val(o)

\* list?.length and set?.size: undefined, hence falsy, on a missing value
Length(o) == IF o = Null THEN 0 ELSE Len(Val(o))
Size(o) == IF o = Null THEN 0 ELSE Cardinality(Val(o))

\* ------------------------------------------------------------ inputs

PLA == << "P", "L", "A" >>
PETG == << "P", "E", "T", "G" >>
pla == << "p", "l", "a" >>
petg == << "p", "e", "t", "g" >>

\* the pending items the queue query can return: one that needs two types,
\* written in either case; one without types whose two overrides are PLA in
\* '#FF0000FF' and PETG in '0000ff'; one without types and with no override
QueueItems ==
  { [ id |-> 1, required_filament_types |-> Some(<< PLA, petg >>),
      filament_overrides |-> Null ],
    [ id |-> 2, required_filament_types |-> Some(<< >>),
      filament_overrides |->
        Some(<< [ type |-> Some(pla),
                  color |-> Some(<< "#", "F", "F", "0", "0", "0", "0", "F", "F" >>) ],
                [ type |-> Some(PETG),
                  color |-> Some(<< "0", "0", "0", "0", "f", "f" >>) ] >>) ],
    [ id |-> 3, required_filament_types |-> Null,
      filament_overrides |-> Some(<< >>) ] }

ItemById(i) == CHOOSE item \in QueueItems : item.id = i

\* every list of distinct items
AllQueues ==
  UNION { { q \in [1..n -> QueueItems] : \A i, j \in 1..n : i # j => q[i] # q[j] } :
          n \in 0..Cardinality(QueueItems) }

\* the colours an override is written in: red with and without '#', in either
\* case, with alpha digits, in three digits, with the '#' inside, and none
OverrideColours ==
  { Null,
    Some(<< >>),
    Some(<< "#", "F", "F", "0", "0", "0", "0" >>),
    Some(<< "F", "F", "0", "0", "0", "0" >>),
    Some(<< "f", "f", "0", "0", "0", "0" >>),
    Some(<< "#", "f", "f", "0", "0", "0", "0" >>),
    Some(<< "#", "F", "F", "0", "0", "0", "0", "8", "0" >>),
    Some(<< "f", "f", "0", "0", "0", "0", "f", "f" >>),
    Some(<< "F", "0", "0" >>),
    Some(<< "#", "f", "0", "0" >>),
    Some(<< "F", "F", "#", "0", "0", "0", "0" >>) }

\* the types an override is written with
OverrideTypes == { Null, Some(PLA), Some(pla) }

\* the items with one override, in every type and colour above
ColourItems ==
  { [ id |-> 4, required_filament_types |-> Null,
      filament_overrides |-> Some(<< [type |-> ty, color |-> c] >>) ] :
    ty \in OverrideTypes, c \in OverrideColours }

\* the lists the queue query returns: every one where the filter is observed,
\* three of them where the clear-plate workflow is
Queues(t) ==
  IF t = "feasible" THEN AllQueues
  ELSE IF t = "colour" THEN { << >> } \cup { << item >> : item \in ColourItems }
  ELSE { << >>, << ItemById(3) >>, << ItemById(1), ItemById(3) >> }

\* the loadedFilamentTypes the widget is given
LoadedTypes(t) ==
  IF t = "colour" THEN { Null }
  ELSE IF t = "feasible" THEN { Null, Some({}), Some({PLA}), Some({PLA, PETG}) }
  ELSE { Null, Some({PLA}) }

\* the loadedFilaments the widget is given: 'PETG:0000ff' or 'PLA:00ff00'
LoadedPairs(t) ==
  IF t = "colour"
  THEN { Null,
         Some({ PLA \o << ":", "f", "f", "0", "0", "0", "0" >> }),
         Some({ PLA \o << ":", "f", "0", "0" >> }) }
  ELSE IF t = "feasible"
  THEN { Null, Some({}),
         Some({ PETG \o << ":", "0", "0", "0", "0", "f", "f" >> }),
         Some({ PLA \o << ":", "0", "0", "f", "f", "0", "0" >> }) }
  ELSE { Null }

PrinterStates == { Null, Some("IDLE"), Some("RUNNING"), Some("PAUSE"),
                   Some("FINISH"), Some("FAILED") }

PlateClearedValues == { Null, Some(FALSE), Some(TRUE) }

PermissionSets == { {}, {"printers:clear_plate"} }

\* the messages of the errors api.clearPlate throws
ErrorMessages == { "Printer not connected" }

printerId == 1

\* api.clearPlate is called at most MaxClears times
MaxClears == 2

\* ------------------------------------------------------------ feasibility filter

\* a type check that asks for one loaded type only
someTypeLoaded(required, types) ==
  \E i \in DOMAIN required : toUpperCase(required[i]) \in types

\* required_filament_types.every(t => loadedFilamentTypes.has(t.toUpperCase()))
everyTypeLoaded(required, types) ==
  \A i \in DOMAIN required : toUpperCase(required[i]) \in types

\* the key an override is looked up by
overrideKey(o) ==
  LET oType == toUpperCase(OrEmpty(o.type))
      oColor == slice(toLowerCase(replace(OrEmpty(o.color), "#")), 6)
  IN oType \o << ":" >> \o oColor

\* a colour check that asks every override to match
everyColorMatch(overrides, pairs) ==
  \A i \in DOMAIN overrides : overrideKey(overrides[i]) \in pairs

\* filament_overrides.some(o => loadedFilaments.has(`${oType}:${oColor}`))
hasColorMatch(overrides, pairs) ==
  \E i \in DOMAIN overrides : overrideKey(overrides[i]) \in pairs

\* a callback that rejects an item with required types when it is given no loaded types
compatibleNeedsTypes(item, types, pairs) ==
  /\ Length(item.required_filament_types) > 0
       => (Size(types) > 0 /\ everyTypeLoaded(Val(item.required_filament_types), Val(types)))
  /\ (Length(item.filament_overrides) > 0 /\ Size(pairs) > 0)
       => hasColorMatch(Val(item.filament_overrides), Val(pairs))

\* the callback of queue.filter
compatible(item, types, pairs) ==
  /\ (Length(item.required_filament_types) > 0 /\ Size(types) > 0)
       => everyTypeLoaded(Val(item.required_filament_types), Val(types))
  /\ (Length(item.filament_overrides) > 0 /\ Size(pairs) > 0)
       => hasColorMatch(Val(item.filament_overrides), Val(pairs))

\* a filter that hands the kept items back last first
RECURSIVE filterReversed(_, _, _)
filterReversed(list, types, pairs) ==
  IF list = << >> THEN << >>
  ELSE filterReversed(Tail(list), types, pairs) \o
       (IF compatible(Head(list), types, pairs) THEN << Head(list) >> ELSE << >>)

\* Array.prototype.filter with the callback above
RECURSIVE filter(_, _, _)
filter(list, types, pairs) ==
  IF list = << >> THEN << >>
  ELSE (IF compatible(Head(list), types, pairs) THEN << Head(list) >> ELSE << >>) \o
       filter(Tail(list), types, pairs)

\* queue?.filter(...)
compatibleQueue(q, types, pairs) ==
  IF q = Null THEN Null ELSE Some(filter(Val(q), types, pairs))

\* compatibleQueue?.[0]
nextItem(cq) == IF Length(cq) = 0 THEN Null ELSE Some(Val(cq)[1])

\* a count that is never zero
totalPendingNeverZero(cq) == IF Length(cq) = 0 THEN 1 ELSE Length(cq)

\* compatibleQueue?.length || 0
totalPending(cq) == Length(cq)

\* ------------------------------------------------------------ what the widget renders

\* a permission check that grants everything
hasPermissionAlways(p) == TRUE

hasPermission(p) == p \in permissions

\* a confirmation that is also shown after a failed call
isSettled(m) == m.status \in {"success", "error"}

\* clearPlateMutation.isSuccess
isSuccess(m) == m.status = "success"

\* clearPlateMutation.isPending
isPending(m) == m.status = "pending"

\* an onSuccess that leaves the printer status alone
invalidatedQueueOnly == { << "queue", printerId >> }

\* the query keys onSuccess passes to invalidateQueries
invalidatedOnSuccess == { << "queue", printerId >>, << "printerStatus", printerId >> }

\* a gate that does not look at plateCleared
needsClearPlateAnyPlate(state, cleared) ==
  state = Some("FINISH") \/ state = Some("FAILED")

needsClearPlate(state, cleared) ==
  (state = Some("FINISH") \/ state = Some("FAILED")) /\ cleared # Some(TRUE)

\* the element the component returns: nothing, the clear-plate panel with the
\* button or the plate-ready confirmation, or the link to the queue
PrinterQueueWidget ==
  LET cq == compatibleQueue(queue, loadedFilamentTypes, loadedFilaments)
      total == totalPending(cq)
      badge == IF total > 1 THEN Some(total - 1) ELSE Null
  IN IF total = 0
     THEN [ kind |-> "null", nextItem |-> Null, badge |-> Null,
            body |-> "none", disabled |-> FALSE ]
     ELSE IF needsClearPlate(printerState, plateCleared)
     THEN IF isSuccess(mutation)
          THEN [ kind |-> "clearPlate", nextItem |-> nextItem(cq), badge |-> badge,
                 body |-> "plateReady", disabled |-> FALSE ]
          ELSE [ kind |-> "clearPlate", nextItem |-> nextItem(cq), badge |-> badge,
                 body |-> "button",
                 disabled |-> (isPending(mutation)
                               \/ ~hasPermission("printers:clear_plate")) ]
     ELSE [ kind |-> "link", nextItem |-> nextItem(cq), badge |-> badge,
            body |-> "none", disabled |-> FALSE ]

\* ------------------------------------------------------------ the widget's steps

\* the first render: the query has no data yet, the props are what the parent gives
WidgetInit ==
  /\ queue = Null
  /\ printerState \in PrinterStates
  /\ plateCleared \in PlateClearedValues
  /\ loadedFilamentTypes \in LoadedTypes(track)
  /\ loadedFilaments \in LoadedPairs(track)
  /\ permissions \in PermissionSets
  /\ mutation = [status |-> "idle"]
  /\ inFlight = 0
  /\ clearPlateCalls = 0
  /\ invalidated = {}
  /\ toast = Null
  /\ screen = IF track = "screen" THEN Some(PrinterQueueWidget) ELSE Null

\* the element on screen after the parent or the queue query has rendered the
\* widget again
AfterPropsChange == IF track = "screen" THEN Some(PrinterQueueWidget)' ELSE screen

\* the queue query resolves, the first time or on a refetch
QueueFetched ==
  \E q \in Queues(track) :
    /\ queue' = Some(q)
    /\ UNCHANGED << printerState, plateCleared, loadedFilamentTypes, loadedFilaments,
                    permissions, mutation, inFlight, clearPlateCalls, invalidated, toast >>
    /\ UNCHANGED << dashVars, histVars >>
    /\ screen' = AfterPropsChange

\* the parent renders the widget with another printerState and plateCleared
PrinterStatusChanged ==
  \E s \in PrinterStates, c \in PlateClearedValues :
    /\ printerState' = s
    /\ plateCleared' = c
    /\ UNCHANGED << queue, loadedFilamentTypes, loadedFilaments,
                    permissions, mutation, inFlight, clearPlateCalls, invalidated, toast >>
    /\ UNCHANGED << dashVars, histVars >>
    /\ screen' = AfterPropsChange

\* the parent renders the widget with other loaded filaments
FilamentsChanged ==
  \E types \in LoadedTypes(track), pairs \in LoadedPairs(track) :
    /\ loadedFilamentTypes' = types
    /\ loadedFilaments' = pairs
    /\ UNCHANGED << queue, printerState, plateCleared,
                    permissions, mutation, inFlight, clearPlateCalls, invalidated, toast >>
    /\ UNCHANGED << dashVars, histVars >>
    /\ screen' = AfterPropsChange

\* useAuth() answers from other permissions
PermissionsChanged ==
  \E ps \in PermissionSets :
    /\ permissions' = ps
    /\ UNCHANGED << queue, printerState, plateCleared, loadedFilamentTypes, loadedFilaments,
                    mutation, inFlight, clearPlateCalls, invalidated, toast >>
    /\ UNCHANGED << dashVars, histVars >>
    /\ screen' = AfterPropsChange

\* the element a click reaches.  useMutation tells the component of a change
\* of the mutation's state after the handler has returned, so the element on
\* screen stays as it is until the widget renders; it is followed where the
\* clicks are observed against it, and elsewhere every step ends rendered.
Shown == IF track = "screen" THEN Val(screen) ELSE PrinterQueueWidget

\* onClick of the clear button that is on screen: clearPlateMutation.mutate()
ClickClearPlate ==
  /\ Shown.body = "button"
  /\ ~Shown.disabled
  /\ clearPlateCalls < MaxClears
  /\ mutation' = [status |-> "pending"]
  /\ inFlight' = inFlight + 1
  /\ clearPlateCalls' = clearPlateCalls + 1
  /\ UNCHANGED << queue, printerState, plateCleared, loadedFilamentTypes, loadedFilaments,
                  permissions, invalidated, toast >>
  /\ UNCHANGED << dashVars, histVars >>
  /\ UNCHANGED screen

\* api.clearPlate resolves: onSuccess; clearPlateMutation follows the call
\* that mutate() made last, which is pending until it has answered
ClearPlateSucceeded ==
  \E latest \in BOOLEAN :
    /\ inFlight > 0
    /\ IF latest THEN isPending(mutation) ELSE (inFlight > 1 \/ ~isPending(mutation))
    /\ inFlight' = inFlight - 1
    /\ mutation' = IF latest THEN [status |-> "success"] ELSE mutation
    /\ invalidated' = invalidated \cup invalidatedOnSuccess
    /\ toast' = Some([message |-> "queue.clearPlateSuccess", type |-> "success"])
    /\ UNCHANGED << queue, printerState, plateCleared, loadedFilamentTypes, loadedFilaments,
                    permissions, clearPlateCalls >>
    /\ UNCHANGED << dashVars, histVars >>
    /\ UNCHANGED screen

\* api.clearPlate rejects: onError
ClearPlateFailed ==
  \E message \in ErrorMessages, latest \in BOOLEAN :
    /\ inFlight > 0
    /\ IF latest THEN isPending(mutation) ELSE (inFlight > 1 \/ ~isPending(mutation))
    /\ inFlight' = inFlight - 1
    /\ mutation' = IF latest THEN [status |-> "error"] ELSE mutation
    /\ toast' = Some([message |-> message, type |-> "error"])
    /\ UNCHANGED << queue, printerState, plateCleared, loadedFilamentTypes, loadedFilaments,
                    permissions, clearPlateCalls, invalidated >>
    /\ UNCHANGED << dashVars, histVars >>
    /\ UNCHANGED screen

\* the widget renders after its mutation has told it of a change
WidgetRender ==
  /\ track = "screen"
  /\ screen # Some(PrinterQueueWidget)
  /\ screen' = Some(PrinterQueueWidget)
  /\ UNCHANGED << queue, printerState, plateCleared, loadedFilamentTypes, loadedFilaments,
                  permissions, mutation, inFlight, clearPlateCalls, invalidated, toast >>
  /\ UNCHANGED << dashVars, histVars >>

\* the widget's inputs alone: what the filter and the render make of them
NextFeasible ==
  \/ QueueFetched
  \/ PrinterStatusChanged
  \/ FilamentsChanged

InitFeasible == DashboardInit /\ track = "feasible" /\ WidgetInit

SpecFeasible == InitFeasible /\ [][NextFeasible]_vars

\* the widget's inputs, the queue holding one override in every type and colour
InitColour == DashboardInit /\ track = "colour" /\ WidgetInit

SpecColour == InitColour /\ [][NextFeasible]_vars

\* the widget with its clear-plate mutation
NextClearPlate ==
  \/ QueueFetched
  \/ PrinterStatusChanged
  \/ FilamentsChanged
  \/ PermissionsChanged
  \/ ClickClearPlate
  \/ ClearPlateSucceeded
  \/ ClearPlateFailed

InitClearPlate == DashboardInit /\ track = "plate" /\ WidgetInit

SpecClearPlate == InitClearPlate /\ [][NextClearPlate]_vars

\* the widget with the element on screen falling behind its mutation
NextOnScreen ==
  \/ QueueFetched
  \/ PrinterStatusChanged
  \/ PermissionsChanged
  \/ ClickClearPlate
  \/ ClearPlateSucceeded
  \/ ClearPlateFailed
  \/ WidgetRender

InitOnScreen == DashboardInit /\ track = "screen" /\ WidgetInit

SpecOnScreen == InitOnScreen /\ [][NextOnScreen]_vars

\* ------------------------------------------------------------ display states

Idle == displayedTagId = Null /\ hiddenTagId = Null
Presenting(t) == displayedTagId = t /\ hiddenTagId = Null
Dismissed(t) == displayedTagId = t /\ hiddenTagId = t

\* this step issues an updateSpoolWeight call for spool s
CallFor(s) == Len(calls') = Len(calls) + 1 /\ calls'[Len(calls')].id = s

\* ------------------------------------------------------------ claims

\* C1: while the displayed spool (displayedSpool?.id) stays the same, at most
\* one updateSpoolWeight call is issued for it, whatever weight samples,
\* stable or not, tag removals and re-detections are rendered meanwhile.
C1_AtMostOnceWhileDisplayed == syncsThisSpool <= 1

\* C1 witness: spool 1 is displayed and was synced, and a further stable sample
\* has arrived after an unstable one was rendered.
C1_Witness ==
  /\ syncsThisSpool = 1
  /\ rendered.spoolId = Some(1)
  /\ weightUpdatedForSpool = Some(1)
  /\ Truthy(currentTagIdOf(sbState))
  /\ ~rendered.weightStable
  /\ sbState.weightStable

\* C2 as claimed: between two calls for the same spool a different matched
\* spool has been the displayed spool.
C2_RepeatOnlyAfterOtherSpool ==
  [][\A s \in SpoolIds : CallFor(s) => sinceSync[s] \in {"never", "other"}]_vars

\* C2 amended: between two calls for the same spool the displayed spool has
\* changed: to a different matched spool, or to none (an unknown tag was
\* detected, or the card was dismissed and the tag removed).
C2_RepeatOnlyAfterSpoolChange ==
  [][\A s \in SpoolIds : CallFor(s) => sinceSync[s] # "same"]_vars

\* C2 witness: spool 1 was synced twice in a row, no other spool in between.
C2_Witness ==
  /\ Len(calls) >= 2
  /\ calls[1].id = 1
  /\ calls[2].id = 1
  /\ sinceSync[2] = "never"

\* C3: whenever a matched spool is displayed, its tag is on the reader, the
\* weight is stable and the render has settled, a call for that spool has been
\* issued since it became the displayed spool; so a spool that is displayed
\* again after another one is synced again.
C3_RearmedOnSwitch ==
  \A s \in SpoolIds :
    ( /\ ~dirty
      /\ rendered.mounted
      /\ rendered.spoolId = Some(s)
      /\ Truthy(currentTagIdOf(sbState))
      /\ sbState.weightStable )
    => (weightUpdatedForSpool = Some(s) /\ syncsThisSpool = 1)

\* C3 witness: spool 1 was synced, then spool 2, then spool 1 again.
C3_Witness ==
  /\ Len(calls) = 3
  /\ calls[1].id = 1
  /\ calls[2].id = 2
  /\ calls[3].id = 1
  /\ ~dirty

C5_InterruptOnNewTag ==
  [][ LET cur == currentTagIdOf(sbState)
      IN  /\ (Render /\ Truthy(cur) /\ displayedTagId # Null /\ displayedTagId # cur)
               => (displayedTagId' = cur /\ hiddenTagId' = Null)
          /\ (Render /\ displayedTagId # Null /\ displayedTagId' = Null)
               => ~Truthy(cur) ]_vars

\* C5 witness: the last render found Dismissed(A) and tag B on the reader,
\* and left Presenting(B).
C5_Witness ==
  /\ rendered.displayedTagId = Some("A")
  /\ rendered.hiddenTagId = Some("A")
  /\ rendered.currentTagId = Some("B")
  /\ Presenting(Some("B"))

\* C6 as claimed: while every rendered sample is unstable and differs from the
\* one before it by less than 3 g, the stable display weight is the first
\* sample's.
C6_DebounceConsecutive ==
  (run # Null /\ Val(run).consecutive) => stableDisplayWeight = Some(Val(run).first)

\* C6 amended: while every rendered sample since the display was unset is
\* unstable and differs from the first one by less than 3 g, the stable
\* display weight is the first sample's.
C6_DebounceNearFirst ==
  (run # Null /\ Val(run).near) => stableDisplayWeight = Some(Val(run).first)

\* C6 witness: a later sample, other than the first but within 3 g of it, has
\* been rendered and the display still shows the first.
C6_Witness ==
  /\ run # Null
  /\ Val(run).near
  /\ rendered.currentWeight # Null
  /\ rendered.currentWeight # Some(Val(run).first)
  /\ stableDisplayWeight = Some(Val(run).first)

\* ------------------------------------------------------------ claims on the queue widget

C8_TypesLoadedForEverySet ==
  (queue # Null) =>
    LET q == Val(queue)
        cq == Val(compatibleQueue(queue, loadedFilamentTypes, loadedFilaments))
        kept(item) == \E k \in DOMAIN cq : cq[k] = item
        colourPasses(item) ==
          \/ Length(item.filament_overrides) = 0
          \/ Size(loadedFilaments) = 0
          \/ \E i \in DOMAIN Val(item.filament_overrides) :
               overrideKey(Val(item.filament_overrides)[i]) \in Val(loadedFilaments)
    IN \A n \in DOMAIN q :
         IF Length(q[n].required_filament_types) > 0
         THEN (loadedFilamentTypes # Null /\ kept(q[n])) =>
                \A i \in DOMAIN Val(q[n].required_filament_types) :
                  toUpperCase(Val(q[n].required_filament_types)[i]) \in Val(loadedFilamentTypes)
         ELSE kept(q[n]) <=> colourPasses(q[n])

\* C8 amended: the same for every non-empty loaded type set; with an empty set,
\* as with none, the type check rejects nothing.
C8_TypesLoadedForNonEmptySet ==
  (queue # Null) =>
    LET q == Val(queue)
        cq == Val(compatibleQueue(queue, loadedFilamentTypes, loadedFilaments))
        kept(item) == \E k \in DOMAIN cq : cq[k] = item
        colourPasses(item) ==
          \/ Length(item.filament_overrides) = 0
          \/ Size(loadedFilaments) = 0
          \/ \E i \in DOMAIN Val(item.filament_overrides) :
               overrideKey(Val(item.filament_overrides)[i]) \in Val(loadedFilaments)
    IN \A n \in DOMAIN q :
         IF Length(q[n].required_filament_types) > 0
         THEN /\ (Size(loadedFilamentTypes) > 0 /\ kept(q[n])) =>
                   \A i \in DOMAIN Val(q[n].required_filament_types) :
                     toUpperCase(Val(q[n].required_filament_types)[i]) \in Val(loadedFilamentTypes)
              /\ (Size(loadedFilamentTypes) = 0) => (kept(q[n]) <=> colourPasses(q[n]))
         ELSE kept(q[n]) <=> colourPasses(q[n])

\* C8 witness: the item that needs PLA and petg is kept with PLA and PETG
\* loaded, and the queue also holds an item without a type list that is kept.
C8_Witness ==
  /\ queue # Null
  /\ loadedFilamentTypes = Some({PLA, PETG})
  /\ LET cq == Val(compatibleQueue(queue, loadedFilamentTypes, loadedFilaments))
     IN /\ \E k \in DOMAIN cq : cq[k] = ItemById(1)
        /\ \E k \in DOMAIN cq : cq[k] = ItemById(3)

\* C9: an item with non-empty filament_overrides, given a non-empty set of
\* loaded pairs, passes the colour check exactly when the key of at least one
\* of its overrides is in the set; with the overrides absent or empty, or the
\* set absent or empty, the colour check passes.  An item passes the filter
\* exactly when it passes the colour check and the type check.
C9_OneOverrideMatches ==
  (queue # Null) =>
    LET q == Val(queue)
        cq == Val(compatibleQueue(queue, loadedFilamentTypes, loadedFilaments))
        kept(item) == \E k \in DOMAIN cq : cq[k] = item
        typePasses(item) ==
          \/ Length(item.required_filament_types) = 0
          \/ Size(loadedFilamentTypes) = 0
          \/ \A i \in DOMAIN Val(item.required_filament_types) :
               toUpperCase(Val(item.required_filament_types)[i]) \in Val(loadedFilamentTypes)
    IN \A n \in DOMAIN q :
         IF Length(q[n].filament_overrides) > 0 /\ Size(loadedFilaments) > 0
         THEN kept(q[n]) <=>
                /\ typePasses(q[n])
                /\ \E i \in DOMAIN Val(q[n].filament_overrides) :
                     overrideKey(Val(q[n].filament_overrides)[i]) \in Val(loadedFilaments)
         ELSE kept(q[n]) <=> typePasses(q[n])

\* C9 witness: the item with a PLA and a PETG override is kept while only the
\* PETG pair is loaded, so its first override does not match and its second does.
C9_Witness ==
  /\ queue # Null
  /\ Size(loadedFilaments) > 0
  /\ LET cq == Val(compatibleQueue(queue, loadedFilamentTypes, loadedFilaments))
         ov == Val(ItemById(2).filament_overrides)
     IN /\ \E k \in DOMAIN cq : cq[k] = ItemById(2)
        /\ overrideKey(ov[1]) \notin Val(loadedFilaments)
        /\ overrideKey(ov[2]) \in Val(loadedFilaments)

\* C10: the feasible list holds the feasible items of the fetched queue, each
\* once, in the order they have in the queue; the next item rendered is its
\* first element and the badge is its length minus one when the length exceeds
\* one, and absent otherwise.
C10_OrderAndNextItem ==
  (queue # Null) =>
    LET q == Val(queue)
        cq == Val(compatibleQueue(queue, loadedFilamentTypes, loadedFilaments))
        feasible == { n \in DOMAIN q : compatible(q[n], loadedFilamentTypes, loadedFilaments) }
        rank(n) == Cardinality({ m \in feasible : m <= n })
        w == PrinterQueueWidget
    IN /\ Len(cq) = Cardinality(feasible)
       /\ \A n \in feasible : cq[rank(n)] = q[n]
       /\ (Len(cq) > 0) =>
            /\ w.nextItem = Some(cq[1])
            /\ w.nextItem = Some(q[CHOOSE n \in feasible : \A m \in feasible : n <= m])
       /\ (Len(cq) > 1) => w.badge = Some(Len(cq) - 1)
       /\ (Len(cq) <= 1) => w.badge = Null

\* C10 witness: the first item of the queue is infeasible, the two behind it
\* are feasible; the second is rendered as next and the badge shows one more.
C10_Witness ==
  /\ queue # Null
  /\ Len(Val(queue)) = 3
  /\ ~compatible(Val(queue)[1], loadedFilamentTypes, loadedFilaments)
  /\ compatible(Val(queue)[2], loadedFilamentTypes, loadedFilaments)
  /\ compatible(Val(queue)[3], loadedFilamentTypes, loadedFilaments)
  /\ PrinterQueueWidget.nextItem = Some(Val(queue)[2])
  /\ PrinterQueueWidget.badge = Some(1)

\* C11: whenever the feasible list is empty (the queue is not loaded, is empty,
\* or has every item filtered out) the widget renders nothing, whatever
\* printerState and plateCleared are: no panel, no button, no link.
C11_NothingWithoutFeasibleJob ==
  Length(compatibleQueue(queue, loadedFilamentTypes, loadedFilaments)) = 0 =>
    /\ PrinterQueueWidget.kind = "null"
    /\ PrinterQueueWidget.body = "none"
    /\ PrinterQueueWidget.nextItem = Null

\* C11 witness: the printer is FINISH with the plate not cleared, the fetched
\* queue holds items, all of them are filtered out, and nothing is rendered.
C11_Witness ==
  /\ Length(queue) > 0
  /\ Length(compatibleQueue(queue, loadedFilamentTypes, loadedFilaments)) = 0
  /\ printerState = Some("FINISH")
  /\ plateCleared = Some(FALSE)
  /\ PrinterQueueWidget.kind = "null"

C14_NoClearWithoutPermission ==
  /\ [][ (clearPlateCalls' # clearPlateCalls) => "printers:clear_plate" \in permissions ]_vars
  /\ [] ( ("printers:clear_plate" \notin permissions
           /\ PrinterQueueWidget.kind = "clearPlate"
           /\ mutation.status # "success") =>
            /\ PrinterQueueWidget.body = "button"
            /\ PrinterQueueWidget.disabled
            /\ ~ENABLED ClickClearPlate )

\* C14 witness: the panel is rendered for a printer in FINISH, the permission
\* is missing, the button is there and disabled, and no call was ever issued.
C14_Witness ==
  /\ "printers:clear_plate" \notin permissions
  /\ printerState = Some("FINISH")
  /\ PrinterQueueWidget.kind = "clearPlate"
  /\ PrinterQueueWidget.body = "button"
  /\ PrinterQueueWidget.disabled
  /\ clearPlateCalls = 0

\* ------------------------------------------------------------ claims on the events

\* C15 as claimed: when the last event is DEVICE_OFFLINE the weight is cleared
\* and so is the tag (no matched spool, no unknown tag), and once that is
\* rendered nothing is displayed and nothing is hidden.
C15_OfflineResetsEverything ==
  (events.last # Null /\ Val(events.last).type = "DEVICE_OFFLINE") =>
    /\ sbState.weight = Null
    /\ sbState.matchedSpool = Null
    /\ sbState.unknownTagUid = Null
    /\ (rendered.mounted /\ ~dirty) => (displayedTagId = Null /\ hiddenTagId = Null)

\* C17: the settling of an updateSpoolWeight promise of the sync effect,
\* resolved or rejected, whenever it happens, changes nothing of the reducer
\* state, displayedTagId, hiddenTagId, displayedWeight, the synced-spool marker
\* and the inventory, and schedules no render; a rejection is only logged.
C17_SyncCompletionChangesNothing ==
  [][ (syncs'.inFlight < syncs.inFlight) =>
        /\ UNCHANGED << sbState, spools, displayedTagId, displayedWeight, hiddenTagId,
                        weightUpdatedForSpool, stableDisplayWeight, rendered, dirty >>
        /\ syncs'.last \in {"resolved", "rejected"} ]_vars

\* C17 witness: a call for spool 1 was rejected after the tag had been removed
\* and spool 2 presented and synced; the marker is that of spool 2.
C17_Witness ==
  /\ syncs = [inFlight |-> 1, last |-> "rejected"]
  /\ displayedTagId = Some("B")
  /\ weightUpdatedForSpool = Some(2)
  /\ ~dirty

\* C18: the display is in exactly one of Idle (no displayed tag), Presenting (a
\* displayed tag that is not the hidden one) and Dismissed (a displayed tag
\* that is the hidden one); in Idle nothing is hidden and, once the effects
\* have run, no tag is on the reader.
C18_StateExclusivity ==
  LET idle == displayedTagId = Null
      presenting == displayedTagId # Null /\ showCard([displayedTagId |-> displayedTagId,
                                                        hiddenTagId |-> hiddenTagId])
      dismissed == displayedTagId # Null /\ hiddenTagId = displayedTagId
  IN /\ idle \/ presenting \/ dismissed
     /\ ~(idle /\ presenting) /\ ~(idle /\ dismissed) /\ ~(presenting /\ dismissed)
     /\ idle => hiddenTagId = Null
     /\ (idle /\ rendered.mounted /\ ~dirty) => currentTagIdOf(sbState) = Null

\* C19 as claimed: hiddenTagId is null or the displayed tag, and once a
\* TagRemoved event that no dismissal followed has been rendered it is null.
C19_HiddenIsDismissedTag ==
  /\ hiddenTagId = Null \/ hiddenTagId = displayedTagId
  /\ (events.removed /\ rendered.mounted /\ ~dirty) => hiddenTagId = Null

\* C20 as claimed: an event of device d2 changes nothing of the weight, the
\* tag, the matched spool and the online flag held for device d1.
C20_CrossDeviceIndependence ==
  [][ ( /\ sbState' # sbState
        /\ sbState.deviceId = Some("d1")
        /\ events'.last # Null
        /\ Val(events'.last).deviceId = Some("d2") ) =>
      /\ sbState'.weight = sbState.weight
      /\ sbState'.weightStable = sbState.weightStable
      /\ sbState'.matchedSpool = sbState.matchedSpool
      /\ sbState'.unknownTagUid = sbState.unknownTagUid
      /\ sbState'.deviceOnline = sbState.deviceOnline ]_vars

\* ------------------------------------------------------------ C16

\* what the last render put in the Current Spool panel: the derived values of
\* the SpoolInfoCard of the displayed spool, or Null when that card is not shown
CurrentSpoolCard(r) ==
  IF showCard(r) /\ r.spoolId # Null
  THEN Some(SpoolInfoCard(Val(FindSpool(spools, r.displayedTagId)), liveWeight(r)))
  ELSE Null

\* the weighing has been followed to its last event and everything is rendered
WeighingDone ==
  /\ track = "e2e"
  /\ scenario.on
  /\ scenario.step = Len(WeighingEvents)
  /\ spools # << >>
  /\ ~dirty

\* C16: the device comes online, the tag of spool 1 (core 250 g, label 1000 g,
\* 200 g used) is read, and the samples 498 g (unstable), 501 g (unstable) and
\* 503 g (stable) arrive. However the renders fall between these events, no
\* updateSpoolWeight call is made before the stable sample, never more than one
\* is made, and once everything is rendered the card shows 253 g remaining and
\* 25 % fill, its weight-match flag is false, and the one call made is
\* updateSpoolWeight(1, 503).
C16_WeighingEndToEnd ==
  (track = "e2e" /\ scenario.on) =>
    /\ scenario.step < Len(WeighingEvents) => calls = << >>
    /\ Len(calls) <= 1
    /\ WeighingDone =>
         /\ calls = << [id |-> 1, grams |-> 503] >>
         /\ CurrentSpoolCard(rendered) # Null
         /\ Val(CurrentSpoolCard(rendered)).remaining = Some(253)
         /\ Val(CurrentSpoolCard(rendered)).fillPercent = Some(25)
         /\ Val(CurrentSpoolCard(rendered)).isMatch = Some(FALSE)

\* the weighing is done: the card weighs 503 g and the one call has been made
C16_Witness ==
  /\ WeighingDone
  /\ calls = << [id |-> 1, grams |-> 503] >>
  /\ Val(CurrentSpoolCard(rendered)).grossWeight = Some(503)
  /\ stableDisplayWeight # Null

\* ------------------------------------------------------------ claims on the payloads

\* C21: an event whose payload lacks a field it needs (a weight event without
\* weight_grams, a tag event without tag_uid, a tag-matched event without
\* spool) dispatches nothing: the live state after it is the state before it.
C21_MalformedDropped ==
  [][ (delivered' # delivered /\ delivered'.malformed) => sbState' = sbState ]_vars

\* ------------------------------------------------------------ claims on coalesced samples

\* the elements of a sequence
Range(seq) == {seq[i] : i \in DOMAIN seq}

\* both samples of a pair have been processed and the page is at rest
PairProcessed == fork.stage = "second" /\ ~dirty

\* C22 as stated: processing two consecutive weight samples w1, w2 gives the
\* same live state, the same stable display weight and the same set of
\* updateSpoolWeight calls as processing only w2.
C22_CoalescingChangesNothing ==
  PairProcessed =>
    /\ sbState = Val(fork.twin).page.sbState
    /\ stableDisplayWeight = Val(fork.twin).page.stableDisplayWeight
    /\ Range(fork.calls) = Range(Val(fork.twin).calls)

\* C22, amended: for a page at rest and two consecutive weight samples w1, w2,
\* processing w1 then w2 gives the same live state as processing only w2. The
\* set of updateSpoolWeight calls is the same when no render fell between the
\* two samples or w1 was unstable, and the stable display weight is the same
\* when no render fell between them or w2 is stable.
C22_CoalescingWithinARender ==
  PairProcessed =>
    /\ ~Val(fork.twin).page.dirty
    /\ sbState = Val(fork.twin).page.sbState
    /\ (~fork.between \/ ~Val(fork.first).stable) =>
         Range(fork.calls) = Range(Val(fork.twin).calls)
    /\ (~fork.between \/ sbState.weightStable) =>
         stableDisplayWeight = Val(fork.twin).page.stableDisplayWeight

\* an unstable sample was rendered, the stable one after it was synced, and
\* the page given the stable one alone made the same call
C22_Witness ==
  /\ PairProcessed
  /\ fork.between
  /\ ~Val(fork.first).stable
  /\ Val(fork.first).weight # sbState.weight
  /\ Len(fork.calls) = 1
  /\ Val(fork.twin).calls = fork.calls

\* ------------------------------------------------------------ claims on the order of events

\* a weight sample and a tag event of one tick have been processed and the page is at rest
TickProcessed == track = "order" /\ fork.stage = "second" /\ ~dirty

\* C23: a weight sample and a tag event (matched, unknown or removed) of the
\* same device that arrive in the same tick lead to the same live state, the
\* same display state and the same updateSpoolWeight calls in both arrival
\* orders, once the effects have run.
C23_OrderWithinATick ==
  TickProcessed =>
    /\ ~Val(fork.twin).page.dirty
    /\ Page = Val(fork.twin).page
    /\ fork.calls = Val(fork.twin).calls

\* a stable sample and then the tag of spool 1 arrived in one tick, and the
\* weight was written in this order as in the other
C23_Witness ==
  /\ TickProcessed
  /\ Val(fork.first).type = "WEIGHT_UPDATE"
  /\ displayedTagId = Some("A")
  /\ fork.calls = << [id |-> 1, grams |-> 499] >>

\* ------------------------------------------------------------ C24

\* C24: when the widget is given no loadedFilamentTypes, the type check
\* rejects no queue item: an item is kept whenever the colour check keeps it.
\* Given the printer state alone, as FINISH, the first item of the queue is
\* then the next job, whatever types it requires, and the clear button is shown.
C24_NoTypesNoTypeCheck ==
  (queue # Null /\ loadedFilamentTypes = Null) =>
    /\ \A i \in DOMAIN Val(queue) :
         /\ compatible(Val(queue)[i], loadedFilamentTypes, Null)
         /\ compatible(Val(queue)[i], loadedFilamentTypes, loadedFilaments)
              = compatible([Val(queue)[i] EXCEPT !.required_filament_types = Null],
                           loadedFilamentTypes, loadedFilaments)
    /\ ( /\ Val(queue) # << >>
         /\ loadedFilaments = Null
         /\ plateCleared = Null
         /\ printerState = Some("FINISH") ) =>
         /\ PrinterQueueWidget.kind = "clearPlate"
         /\ PrinterQueueWidget.body = "button"
         /\ PrinterQueueWidget.nextItem = Some(Val(queue)[1])

\* the item that requires PLA and PETG is the next job of a finished printer
\* that was given no loaded types
C24_Witness ==
  /\ queue # Null
  /\ Val(queue) # << >>
  /\ Val(queue)[1].required_filament_types = Some(<< PLA, petg >>)
  /\ loadedFilamentTypes = Null
  /\ loadedFilaments = Null
  /\ plateCleared = Null
  /\ printerState = Some("FINISH")
  /\ PrinterQueueWidget.body = "button"
  /\ Val(PrinterQueueWidget.nextItem).id = 1

\* ------------------------------------------------------------ C25

\* the one override of the queue's one item, where the colours are observed
TheOverride == Val(Val(queue)[1].filament_overrides)[1]

ColourObserved == track = "colour" /\ queue # Null /\ Val(queue) # << >>

\* the colour part of a key: what follows the type and the colon
ColourOfKey(o) ==
  SubSeq(overrideKey(o), Len(OrEmpty(o.type)) + 2, Len(overrideKey(o)))

Red == << "f", "f", "0", "0", "0", "0" >>

\* colour c2 is colour c1 in another letter case, or with a '#' put in front
\* of it, or with digits added after its six
SameColourWritten(c1, c2) ==
  \/ toLowerCase(c1) = toLowerCase(c2)
  \/ c2 = << "#" >> \o c1 /\ (\A i \in DOMAIN c1 : c1[i] # "#")
  \/ /\ Len(c1) = 6 /\ Len(c2) > 6
     /\ SubSeq(c2, 1, 6) = c1
     /\ \A i \in DOMAIN c1 : c1[i] # "#"

\* C25 as stated: the colour of the key has been truncated or padded to six
\* characters, whatever the override's colour was.
C25_ColourHasSixDigits ==
  ColourObserved => Len(ColourOfKey(TheOverride)) = 6

\* C25, amended: the key is the override's type in upper case, a colon, and
\* the colour without its first '#', in lower case, cut after six characters
\* and never padded: a colour of fewer than six characters stays that short.
\* Two overrides whose colours differ only in letter case, in a leading '#' or
\* in digits after the sixth have the same key; PLA in '#FF0000' has the key
\* 'PLA:ff0000'; and with loaded pairs given, the item is kept exactly when
\* the key is one of them.
C25_ColourKey ==
  ColourObserved =>
    LET o == TheOverride
        c == OrEmpty(o.color)
        hash == IF \E i \in DOMAIN c : c[i] = "#" THEN 1 ELSE 0
        k == ColourOfKey(o)
    IN  /\ Len(overrideKey(o)) = Len(OrEmpty(o.type)) + 1 + Len(k)
        /\ Len(k) = (IF Len(c) - hash > 6 THEN 6 ELSE Len(c) - hash)
        /\ k = toLowerCase(k)
        /\ SubSeq(overrideKey(o), 1, Len(OrEmpty(o.type)) + 1)
             = toUpperCase(OrEmpty(o.type)) \o << ":" >>
        /\ \A c2 \in OverrideColours :
             (c2 # Null /\ SameColourWritten(c, Val(c2))) =>
               overrideKey([o EXCEPT !.color = c2]) = overrideKey(o)
        /\ (o.type = Some(PLA) /\ c = << "#", "F", "F", "0", "0", "0", "0" >>) =>
             overrideKey(o) = PLA \o << ":" >> \o Red
        /\ Size(loadedFilaments) > 0 =>
             ( (PrinterQueueWidget.kind # "null") <=> (overrideKey(o) \in Val(loadedFilaments)) )

\* an override of pla in '#FF000080' is kept by a printer loaded with 'PLA:ff0000'
C25_Witness ==
  /\ ColourObserved
  /\ TheOverride.type = Some(pla)
  /\ TheOverride.color = Some(<< "#", "F", "F", "0", "0", "0", "0", "8", "0" >>)
  /\ loadedFilaments = Some({ PLA \o << ":" >> \o Red })
  /\ PrinterQueueWidget.nextItem = Some(Val(queue)[1])

\* ------------------------------------------------------------ claims on the manual sync

\* a step that issues an updateSpoolWeight call, where the manual sync is observed
CallIssued == track = "manual" /\ calls' # calls

\* C26: every updateSpoolWeight call, of the automatic sync or of the Sync
\* Weight button, is issued while the latest weight sample is stable and a
\* weight is available, and passes round(max(0, grams)) of that weight, which
\* is a whole number that is not negative.
C26_SyncPreconditionAndValue ==
  [][ CallIssued =>
        /\ sbState.weightStable
        /\ sbState.weight # Null
        /\ calls'[1].grams = MathRound(MathMax(0, Val(sbState.weight)))
        /\ calls'[1].grams >= 0 ]_vars

\* ------------------------------------------------------------ claims on the automatic sync

\* the tag of spool s is on the reader, s is the displayed spool, and the
\* latest weight sample is stable
StablyPresented(s) ==
  /\ currentTagIdOf(sbState) # Null
  /\ FindSpool(InventorySpools, currentTagIdOf(sbState)) # Null
  /\ Val(FindSpool(InventorySpools, currentTagIdOf(sbState))).id = s
  /\ displayedSpoolIdOf(spools, displayedTagId) = Some(s)
  /\ sbState.weightStable
  /\ sbState.weight # Null

\* updateSpoolWeight was called for spool s and s has been the displayed spool since
SyncedThisPresentation(s) == sinceSync[s] = "same"

\* C27: when the tag of a known spool S is on the reader, S is the displayed
\* spool and the weight is stable, then, unless one of these ends,
\* updateSpoolWeight(S, ..) has been or will be called in this presentation
\* (the stretch for which S is the displayed spool), in whatever order the
\* tag, the stable sample and the inventory arrived. Checked under SpecLive,
\* where a scheduled render is eventually carried out.
C27_SyncEventuallyHappens ==
  \A s \in {1, 2} :
    StablyPresented(s) ~> (SyncedThisPresentation(s) \/ ~StablyPresented(s))

\* spool 2 is presented with a stable weight and has been synced, the page at rest
C27_Witness ==
  /\ track = "live"
  /\ StablyPresented(2)
  /\ SyncedThisPresentation(2)
  /\ calls # << >> /\ calls[1].id = 2
  /\ ~dirty

\* a render whose sync effect calls updateSpoolWeight, where the automatic
\* sync is observed
AutoSyncCall == track = "live" /\ calls' # calls

\* the card of spool id is presented: a tag is displayed, it is not the
\* dismissed one, and it is the tag of spool id
PresentingSpool(dTag, hTag, id) ==
  /\ Truthy(dTag)
  /\ hTag # dTag
  /\ displayedSpoolIdOf(spools, dTag) = Some(id)

\* C28: the sync effect calls updateSpoolWeight for spool S only in a render
\* that presents the card of S's tag, or leaves it presented; never while
\* that card is dismissed (hiddenTagId = displayedTagId) or nothing is displayed.
C28_SyncOnlyInPresenting ==
  [][ AutoSyncCall =>
        \/ PresentingSpool(displayedTagId, hiddenTagId, calls'[1].id)
        \/ PresentingSpool(displayedTagId', hiddenTagId', calls'[1].id) ]_vars

\* C29: whenever the sync effect calls updateSpoolWeight(id, g), the tag on
\* the reader at that moment is the tag of spool id, in every interleaving of
\* tag-removed, tag-detected and weight events, also when a tag B arrives
\* while the card of spool A is still displayed.
C29_SyncTargetsSpoolOnReader ==
  [][ AutoSyncCall =>
        displayedSpoolIdOf(spools, currentTagIdOf(sbState)) = Some(calls'[1].id) ]_vars

\* C30: the grams the sync effect writes for spool S come from a weight
\* sample that was received after the tag now on the reader was detected; a
\* reading left over from before the tag was placed is never written.
C30_SyncedWeightIsFresh == [][ AutoSyncCall => events.fresh ]_vars

\* ------------------------------------------------------------ claims on the persistence of the card

\* C31: a tag that is displayed and not dismissed stays the displayed tag
\* through tag removals, re-detections of the same tag, weight samples and
\* online/offline events; displayedTagId changes only to a different tag
\* that is detected, or after the user dismissed the card of that tag.
C31_CardPersists ==
  [][ ( /\ displayedTagId # Null
        /\ hiddenTagId # displayedTagId
        /\ displayedTagId' # displayedTagId ) =>
      ( /\ currentTagIdOf(sbState) # Null
        /\ displayedTagId' = currentTagIdOf(sbState) ) ]_vars

\* ------------------------------------------------------------ claims on the next clear

\* the entry condition of ReadyToClear: the print ended, the plate is not
\* cleared (false or not given) and a feasible job is queued
EntryCondition ==
  /\ needsClearPlate(printerState, plateCleared)
  /\ totalPending(compatibleQueue(queue, loadedFilamentTypes, loadedFilaments)) > 0

\* C32: after a clearPlate call has succeeded, when the printer has left
\* FINISH and FAILED and then satisfies the entry condition again (a further
\* job ended with the plate not cleared and a feasible job queued), the widget
\* shows the clear button, not the plate-ready confirmation.
C32_ClearOfferedForNextJob ==
  [][ ( /\ isSuccess(mutation)
        /\ printerState \notin {Some("FINISH"), Some("FAILED")}
        /\ EntryCondition' ) =>
      PrinterQueueWidget'.body = "button" ]_vars

\* ------------------------------------------------------------ claims on the stabilised display

\* C33: a render that processes a weight sample of g grams leaves the stable
\* display weight at g if the display was unset, or g differs from the
\* displayed value by 3 g or more, or the sample is stable, and leaves the
\* displayed value as it was otherwise; so a rendered stable sample is always
\* the value displayed.
C33_UpdateRule ==
  [][ (Render /\ sbState.weight # Null) =>
        LET g == Val(sbState.weight)
            prev == stableDisplayWeight
            shown == \/ prev = Null
                     \/ sbState.weightStable
                     \/ g - Val(prev) >= WEIGHT_THRESHOLD * UnitsPerGram
                     \/ Val(prev) - g >= WEIGHT_THRESHOLD * UnitsPerGram
        IN  /\ stableDisplayWeight' = IF shown THEN Some(g) ELSE prev
            /\ sbState.weightStable => stableDisplayWeight' = sbState.weight ]_vars

\* C33 witness: an unstable sample within 3 g of the displayed value has been
\* rendered and the display kept its value, which a stable sample had set.
C33_Witness ==
  /\ track = "filter"
  /\ ~dirty
  /\ rendered.currentWeight = Some(1001)
  /\ ~rendered.weightStable
  /\ stableDisplayWeight = Some(997)
  /\ run = Some(Broken)

\* C34: once a DEVICE_OFFLINE or a TAG_REMOVED event of the device has been rendered and no
\* weight sample has arrived since, the stable display weight is unset.
C34_ResetOnOfflineAndRemoval ==
  ( /\ events.last # Null
    /\ Val(events.last).type \in {"DEVICE_OFFLINE", "TAG_REMOVED"}
    /\ Val(events.last).deviceId = sbState.deviceId
    /\ rendered.mounted
    /\ ~dirty ) => stableDisplayWeight = Null

\* ------------------------------------------------------------ claims on the numbers put on screen

\* C35: the scale readout of a stable display weight w is 0 when |w| <= 20 g,
\* round(w) when w > 20 g, and 0 when w < -20 g; it is never negative.
C35_ZeroClamp ==
  stableDisplayWeight # Null =>
    LET w == Val(stableDisplayWeight)
        shown == Val(scaleReadout(stableDisplayWeight))
        limit == 20 * UnitsPerGram
    IN  /\ (w >= -limit /\ w <= limit) => shown = 0
        /\ w > limit => shown = MathRound(w)
        /\ w < -limit => shown = 0
        /\ shown >= 0

\* C35 witness: 20 g is displayed as 0 while a weight just above, 20.5 g, is
\* the sample that came last and waits for its render.
C35_Witness ==
  /\ track = "numbers"
  /\ stableDisplayWeight = Some(20 * UnitsPerGram)
  /\ scaleReadout(stableDisplayWeight) = Some(0)
  /\ sbState.weight = Some(41)
  /\ scaleReadout(sbState.weight) = Some(21)

\* the spool whose card the last render shows
CardSpool == Val(FindSpool(spools, rendered.displayedTagId))

\* the card of a matched spool is on screen with a weight from the scale
CardWeighs ==
  /\ CurrentSpoolCard(rendered) # Null
  /\ Val(CurrentSpoolCard(rendered)).remaining # Null

\* C36 as claimed: fillPercent = min(100, round(remaining / max(1, labelWeight)
\* * 100)), labelWeight being the spool's label weight, and it lies in 0..100.
C36_FillOfLabelOrOne ==
  CardWeighs =>
    LET c == Val(CurrentSpoolCard(rendered))
        fill == Val(c.fillPercent)
    IN  /\ fill = MathMin(100, RoundRatio(Val(c.remaining) * 100,
                                          MathMax(1, CardSpool.label_weight)))
        /\ fill >= 0 /\ fill <= 100

\* C36 amended: fillPercent = min(100, round(remaining / L * 100)), L being the
\* spool's label weight, or 1000 g when that is 0 or missing; it lies in 0..100.
C36_FillOfLabelOrDefault ==
  CardWeighs =>
    LET c == Val(CurrentSpoolCard(rendered))
        fill == Val(c.fillPercent)
        L == IF CardSpool.label_weight > 0 THEN CardSpool.label_weight ELSE 1000
    IN  /\ fill = MathMin(100, RoundRatio(Val(c.remaining) * 100, L))
        /\ fill >= 0 /\ fill <= 100

\* C36 witness: the card of spool 2, which has no label weight, shows 50 %
\* for the 499 g it weighs with nothing taken off for the core.
C36_Witness ==
  /\ track = "numbers"
  /\ CardWeighs
  /\ CardSpool.id = 2
  /\ CardSpool.label_weight = 0
  /\ Val(CurrentSpoolCard(rendered)).remaining = Some(499)
  /\ Val(CurrentSpoolCard(rendered)).fillPercent = Some(50)

\* the default core weight the user configured: 0 g and 300 g are stored as
\* "0" and "300"; nothing, "501" and "x" configure nothing valid
ConfiguredDefault ==
  IF storage = Some(<<"0">>) THEN 0
  ELSE IF storage = Some(<<"3", "0", "0">>) THEN 300
  ELSE 250

\* C37: remaining = round(max(0, grossWeight - coreWeight)), grossWeight being
\* round(max(0, scale grams)) and coreWeight the spool's core weight when it is
\* greater than 0 and the configured default otherwise, 250 g when nothing
\* valid is configured; remaining is never negative.
C37_RemainingWithCoreFallback ==
  CardWeighs =>
    LET c == Val(CurrentSpoolCard(rendered))
        gross == MathRound(MathMax(0, Val(liveWeight(rendered))))
        core == IF CardSpool.core_weight > 0 THEN CardSpool.core_weight
                ELSE ConfiguredDefault
    IN  /\ c.grossWeight = Some(gross)
        /\ c.remaining = Some(MathMax(0, gross - core))
        /\ Val(c.remaining) >= 0

\* C37 witness: spool 2 has no core weight, 300 g is the stored default, and
\* of the 499 g on the scale 199 g remain.
C37_Witness ==
  /\ track = "numbers"
  /\ CardWeighs
  /\ CardSpool.id = 2
  /\ storage = Some(<<"3", "0", "0">>)
  /\ Val(CurrentSpoolCard(rendered)).grossWeight = Some(499)
  /\ Val(CurrentSpoolCard(rendered)).remaining = Some(199)

\* ------------------------------------------------------------ claims on the marker of the sync

\* C38: weightUpdatedForSpool is set to a spool id only in a step that also
\* calls updateSpoolWeight for that id, and the latest sample is never flagged
\* stable while the weight is null; so no spool is marked as synced without
\* the write being issued.  The weight events are those of the typed
\* WEIGHT_UPDATE action, which carry a weight.
C38_NoSilentSyncLoss ==
  /\ [] (sbState.weightStable => sbState.weight # Null)
  /\ [][ (weightUpdatedForSpool' # weightUpdatedForSpool /\ weightUpdatedForSpool' # Null) =>
           /\ Len(calls') = Len(calls) + 1
           /\ calls'[Len(calls')].id = Val(weightUpdatedForSpool') ]_vars

\* C38 witness: spool 1 was marked and its one call was made, and the device
\* has gone offline since, which left no weight and no stable flag behind.
C38_Witness ==
  /\ track = "sync"
  /\ weightUpdatedForSpool = Some(1)
  /\ calls = << [id |-> 1, grams |-> 499] >>
  /\ sbState.weight = Null
  /\ ~sbState.weightStable
  /\ ~dirty

\* C39: for one printer widget at most one clearPlate call is in flight at any
\* time, and no clearPlate call is issued while the confirmation that the plate
\* was cleared is the element on screen
C39_SingleClearInFlight ==
  /\ [] (inFlight <= 1)
  /\ [][ clearPlateCalls' # clearPlateCalls => Val(screen).body # "plateReady" ]_vars

====
